---- MODULE Spec2Model ----
(***************************************************************************)
(* pgdb: the shared-instance registry of db_fixture, the DbUrl handles it  *)
(* returns and their release (src/pgdb/src/lib.rs).                        *)
(*                                                                         *)
(* Threads call db_fixture and drop the handles it returned.  A thread's   *)
(* position in db_fixture, in PostgresBuilder::start and in the drop glue  *)
(* of DbUrl / Arc<Postgres> / Postgres is its pc; every step between two   *)
(* pcs is one action.  Steps that touch no shared state are merged into    *)
(* the step that follows them.                                             *)
(***************************************************************************)
EXTENDS Integers, Sequences, FiniteSets, Bags, TLC

\* ------------------------------------------------------------------ bounds
NumThreads == 2
MaxCalls == 2
\* The longest string handed to escape_ident / escape_string.
MaxLen == 3
\* The longest startup_timeout, in ticks of the clock.
MaxTimeout == 3
MaxClients == 2

Threads == 1..NumThreads

\* ---------------------------------------------------------------- constants
\* port().unwrap_or(5432)
DefaultPgPort == 5432

\* Ports the OS may hand out for a bind to port 0 (some of the ephemeral range).
EphemeralPorts == {49152, 49153, 49154}

NoHost == "none"
NoPort == 0
NoName == <<>>
NoUrl == [scheme |-> "", user |-> NoName, pw |-> NoName, host |-> NoHost,
          port |-> NoPort, path |-> NoName]

\* The key of the externally managed server in roles / dbs; a local Instance
\* is keyed by its index in insts.
ExternalServer == 0

VARIABLES
    pc,          \* thread -> position
    arc,         \* thread -> the Arc<Postgres> it holds (`pg` / `arc`), 0 = none
    su,          \* thread -> superuser URL handed to create_fixture_db
    rid,         \* thread -> random_id of the create_fixture_db in progress
    victim,      \* thread -> handle (External drop) or Instance (teardown) in work
    unwinding,   \* thread -> TRUE while it unwinds from a panic
    lockHolder,  \* static DB: the holder of the Mutex, 0 = unlocked
    poisoned,    \* static DB: the Mutex's poison flag
    slot,        \* static DB: the Weak<Postgres>, 0 = Weak::new()
    insts,       \* sequence of the Instances whose tempdir was ever created
    handles,     \* random_id -> the DbUrl built from it (kept after release)
    roles,       \* <<server, role name>> present on a server
    dbs,         \* [srv, name, owner] databases present on a server
    nextRandom,  \* number of OsRng draws made so far
    calls,       \* number of db_fixture / start calls made so far
    st,          \* thread -> its PostgresBuilder::start call, in progress or last
    client,      \* the last call made on a PostgresClient
    quoting,     \* one call of escape_ident / escape_string: input and output
    probing,     \* one run of the readiness loop of start
    command,     \* the last subprocess command line built (process::Command)
    clients      \* bag of the PostgresClient values alive, each borrowing its Instance

vars == <<pc, arc, su, rid, victim, unwinding, lockHolder, poisoned, slot,
          insts, handles, roles, dbs, nextRandom, calls, st, client, quoting, probing,
          command, clients>>

\* The variables only the Client calls, the escaping, the readiness loop and
\* the command lines use.
aux == <<client, quoting, probing, command, clients>>

\* ------------------------------------------------------- PGDB_TESTS_URL
AdminUrl == [scheme |-> "postgres", user |-> <<"admin">>, pw |-> <<"secret">>,
             host |-> "dbhost", port |-> NoPort, path |-> NoName]

Unset == [set |-> FALSE, parses |-> FALSE, url |-> NoUrl]
ValidSetting == [set |-> TRUE, parses |-> TRUE, url |-> AdminUrl]
Unparsable == [set |-> TRUE, parses |-> FALSE, url |-> NoUrl]
WrongScheme == [set |-> TRUE, parses |-> TRUE,
                url |-> [AdminUrl EXCEPT !.scheme = "mysql"]]
\* A URL without a host has no userinfo either ("postgres:///db").
HostlessSetting == [set |-> TRUE, parses |-> TRUE,
                    url |-> [AdminUrl EXCEPT !.host = NoHost, !.user = NoName,
                                             !.pw = NoName]]
UserlessSetting == [set |-> TRUE, parses |-> TRUE,
                    url |-> [AdminUrl EXCEPT !.user = NoName, !.pw = NoName]]
\* "mysql:///db" and "mysql://dbhost/db"
WrongSchemeHostless == [set |-> TRUE, parses |-> TRUE,
                        url |-> [HostlessSetting.url EXCEPT !.scheme = "mysql"]]
WrongSchemeUserless == [set |-> TRUE, parses |-> TRUE,
                        url |-> [UserlessSetting.url EXCEPT !.scheme = "mysql"]]

ExternalSettings == {Unset, ValidSetting, Unparsable, WrongScheme,
                     HostlessSetting, UserlessSetting, WrongSchemeHostless,
                     WrongSchemeUserless}

UrlErr(e) == [tag |-> "Err", url |-> NoUrl, err |-> e]

\* PGDB_TESTS_URL is never consulted.
ParseIgnoresSetting(s) == [tag |-> "None", url |-> NoUrl, err |-> "none"]

\* The username is looked at first, then the host, then the scheme.
ParseChecksUsernameFirst(s) ==
    IF ~s.set THEN [tag |-> "None", url |-> NoUrl, err |-> "none"]
    ELSE IF ~s.parses THEN UrlErr("ParseError")
    ELSE IF s.url.user = NoName THEN UrlErr("MissingUsername")
    ELSE IF s.url.host = NoHost THEN UrlErr("MissingHost")
    ELSE IF s.url.scheme # "postgres" THEN UrlErr("InvalidScheme")
    ELSE [tag |-> "Some", url |-> s.url, err |-> "none"]

parse_external_test_url(s) ==
    IF ~s.set THEN [tag |-> "None", url |-> NoUrl, err |-> "none"]
    ELSE IF ~s.parses THEN UrlErr("ParseError")
    ELSE IF s.url.scheme # "postgres" THEN UrlErr("InvalidScheme")
    ELSE IF s.url.host = NoHost THEN UrlErr("MissingHost")
    ELSE IF s.url.user = NoName THEN UrlErr("MissingUsername")
    ELSE [tag |-> "Some", url |-> s.url, err |-> "none"]

\* ------------------------------------------------------------ random ids
\* generate_random_string: 16 bytes of OsRng rendered as hex.  A draw never
\* repeats an earlier one (128 bits; spec 4.5 treats a collision as negligible);
\* unused values being interchangeable, the draw is the next unused one.
generate_random_string == <<ToString(nextRandom + 1)>>

\* --------------------------------------------------------------- escaping
RECURSIVE quote_chars(_, _)
quote_chars(quote_char, unescaped) ==
    IF unescaped = <<>> THEN <<>>
    ELSE (IF Head(unescaped) = quote_char
             THEN <<quote_char, quote_char>>
             ELSE <<Head(unescaped)>>)
         \o quote_chars(quote_char, Tail(unescaped))

\* The string is wrapped in quotes, quotes inside it are left as they are.
QuoteWithoutDoubling(quote_char, unescaped) ==
    <<quote_char>> \o unescaped \o <<quote_char>>

quote(quote_char, unescaped) ==
    <<quote_char>> \o quote_chars(quote_char, unescaped) \o <<quote_char>>

escape_ident(unescaped) == quote("\"", unescaped)

escape_string(unescaped) == quote("'", unescaped)

\* The server's reading of a quoted identifier or literal: the text between
\* the outer quotes with doubled quotes undoubled.
RECURSIVE Undouble(_, _)
Undouble(q, s) ==
    IF s = <<>> THEN <<>>
    ELSE IF Len(s) >= 2 /\ s[1] = q /\ s[2] = q
         THEN <<q>> \o Undouble(q, Tail(Tail(s)))
         ELSE <<Head(s)>> \o Undouble(q, Tail(s))

Unquote(q, s) ==
    IF Len(s) < 2 THEN s ELSE Undouble(q, SubSeq(s, 2, Len(s) - 1))

\* -------------------------------------------------------------------- Url
set_username(url, name) == [url EXCEPT !.user = name]
set_password(url, password) == [url EXCEPT !.pw = password]
set_path(url, path) == [url EXCEPT !.path = <<"/">> \o path]

RECURSIVE trim_start_matches(_, _)
trim_start_matches(s, c) ==
    IF s # <<>> /\ Head(s) = c THEN trim_start_matches(Tail(s), c) ELSE s

\* Url::as_str: the serialisation postgres://user:pw@host[:port]/path
url_as_str(url) ==
    <<url.scheme, "://">> \o url.user \o <<":">> \o url.pw \o <<"@", url.host>>
    \o (IF url.port = NoPort THEN <<>> ELSE <<":", ToString(url.port)>>)
    \o url.path

\* ------------------------------------------------------------ the servers
\* The connection parameters of one psql invocation.
Conn(host, port, user, pw, database) ==
    [host |-> host, port |-> port, user |-> user, pw |-> pw, db |-> database]

\* The names of the address a local server listens on: start passes postgres
\* no listen address, whatever the builder's host is, so it is the loopback one.
LoopbackHosts == {"127.0.0.1", "localhost"}

\* The server listening at host:port; -1 when nothing listens there.
ServerAt(host, port) ==
    IF host = AdminUrl.host /\ port = DefaultPgPort THEN ExternalServer
    ELSE IF \E i \in DOMAIN insts :
                insts[i].proc = "running" /\ host \in LoopbackHosts
                /\ insts[i].url.port = port
         THEN CHOOSE i \in DOMAIN insts :
                insts[i].proc = "running" /\ host \in LoopbackHosts
                /\ insts[i].url.port = port
         ELSE -1

\* The superuser credentials a server accepts (--auth=md5, --pwfile): those of
\* the admin URL on the external server, on a local one the superuser name and
\* the content of the password file initdb was given.
Accepts(srv, conn) ==
    LET admin == IF srv = ExternalServer THEN AdminUrl
                 ELSE [user |-> insts[srv].url.user, pw |-> insts[srv].pw_written]
    IN /\ conn.user = admin.user
       /\ conn.pw = admin.pw
       /\ (conn.db = <<"postgres">> \/ \E d \in dbs : d.srv = srv /\ d.name = conn.db)

\* What a statement does on server srv: [ok, roles, dbs].
ServerExec(srv, sql) ==
    LET name == Unquote("\"", sql.ident)
        here == {d \in dbs : d.srv = srv}
    IN  CASE sql.verb = "CREATE ROLE" ->
                IF <<srv, name>> \in roles
                THEN [ok |-> FALSE, roles |-> roles, dbs |-> dbs]
                ELSE [ok |-> TRUE, roles |-> roles \cup {<<srv, name>>}, dbs |-> dbs]
          [] sql.verb = "CREATE DATABASE" ->
                LET owner == Unquote("\"", sql.arg)
                IN IF (\E d \in here : d.name = name) \/ <<srv, owner>> \notin roles
                   THEN [ok |-> FALSE, roles |-> roles, dbs |-> dbs]
                   ELSE [ok |-> TRUE, roles |-> roles,
                         dbs |-> dbs \cup {[srv |-> srv, name |-> name, owner |-> owner]}]
          [] sql.verb = "DROP DATABASE IF EXISTS" ->
                [ok |-> TRUE, roles |-> roles,
                 dbs |-> {d \in dbs : ~(d.srv = srv /\ d.name = name)}]
          [] sql.verb = "DROP ROLE IF EXISTS" ->
                IF \E d \in here : d.owner = name
                THEN [ok |-> FALSE, roles |-> roles, dbs |-> dbs]
                ELSE [ok |-> TRUE, roles |-> roles \ {<<srv, name>>}, dbs |-> dbs]

\* What can happen to one psql invocation: the executable cannot be launched,
\* the connection fails, or the statement reaches the server.
PsqlEnvs == {"no_psql", "unreachable", "reachable"}

\* The process of one `psql -h -p -U -d -c sql` with PGPASSWORD: whether it
\* could be launched, its exit code (0; 1: the statement failed; 2: no
\* connection) and its effect on the servers.
PsqlCommand(env, conn, sql) ==
    LET srv == ServerAt(conn.host, conn.port)
        same == [roles |-> roles, dbs |-> dbs]
    IN  IF env = "no_psql" THEN [launched |-> FALSE, code |-> -1] @@ same
        ELSE IF env = "unreachable" \/ srv = -1 \/ ~Accepts(srv, conn)
             THEN [launched |-> TRUE, code |-> 2] @@ same
        ELSE LET r == ServerExec(srv, sql)
             IN [launched |-> TRUE, code |-> IF r.ok THEN 0 ELSE 1,
                 roles |-> r.roles, dbs |-> r.dbs]

\* A script file for psql -f: it is missing, or holds one statement.
NoFile == [exists |-> FALSE, sql |-> <<>>]

\* The process of one `psql -h -p -U -d -f file`: a missing file is an error
\* of psql's own (exit code 1); a statement of the script that fails does not
\* stop psql, which exits with 0 (ON_ERROR_STOP is not set).
PsqlFile(env, conn, file) ==
    LET srv == ServerAt(conn.host, conn.port)
        same == [roles |-> roles, dbs |-> dbs]
    IN  IF env = "no_psql" THEN [launched |-> FALSE, code |-> -1] @@ same
        ELSE IF env = "unreachable" \/ srv = -1 \/ ~Accepts(srv, conn)
             THEN [launched |-> TRUE, code |-> 2] @@ same
        ELSE IF ~file.exists THEN [launched |-> TRUE, code |-> 1] @@ same
        ELSE LET r == ServerExec(srv, file.sql)
             IN [launched |-> TRUE, code |-> 0, roles |-> r.roles, dbs |-> r.dbs]

\* The exit status is not looked at.
PsqlResultIgnoresExit(p) ==
    IF ~p.launched THEN [tag |-> "RunPsql", code |-> -1] ELSE [tag |-> "Ok", code |-> 0]

\* .status().map_err(Error::RunPsql)?; if !status.success() { return
\* Err(Error::PsqlFailed(status)) }; Ok(())
psql_result(p) ==
    IF ~p.launched THEN [tag |-> "RunPsql", code |-> -1]
    ELSE IF p.code # 0 THEN [tag |-> "PsqlFailed", code |-> p.code]
    ELSE [tag |-> "Ok", code |-> 0]

\* One run of psql -c: what becomes of it ("RunPsql": not launched,
\* "PsqlFailed": non-zero exit, "Ok") and its effect.
Psql(env, conn, sql) ==
    LET p == PsqlCommand(env, conn, sql)
    IN  [status |-> psql_result(p).tag, roles |-> p.roles, dbs |-> p.dbs]

\* run_psql_command: host is expected to be there, the port defaults to 5432.
run_psql_command(env, superuser_url, database, sql) ==
    Psql(env,
         Conn(superuser_url.host,
              IF superuser_url.port = NoPort THEN DefaultPgPort ELSE superuser_url.port,
              superuser_url.user, superuser_url.pw, database),
         sql)

CreateRoleSql(db_user, db_pw) ==
    [verb |-> "CREATE ROLE", ident |-> escape_ident(db_user), arg |-> escape_string(db_pw)]

CreateDatabaseSql(db_name, db_user) ==
    [verb |-> "CREATE DATABASE", ident |-> escape_ident(db_name), arg |-> escape_ident(db_user)]

DropDatabaseSql(db_name) ==
    [verb |-> "DROP DATABASE IF EXISTS", ident |-> escape_ident(db_name), arg |-> <<>>]

DropRoleSql(db_user) ==
    [verb |-> "DROP ROLE IF EXISTS", ident |-> escape_ident(db_user), arg |-> <<>>]

\* create_fixture_db: the names derived from one random id, and the URL built.
fixture_db_name(random_id) == <<"fixture_db_">> \o random_id
fixture_db_user(random_id) == <<"fixture_user_">> \o random_id
FixedFixturePw(random_id) == <<"fixture_pass_">>

fixture_db_pw(random_id) == <<"fixture_pass_">> \o random_id

fixture_url(superuser_url, random_id) ==
    set_path(set_password(set_username(superuser_url, fixture_db_user(random_id)),
                          fixture_db_pw(random_id)),
             fixture_db_name(random_id))

\* ------------------------------------------------------- PostgresBuilder
\* A port a caller sets with PostgresBuilder::port.
RequestedPort == 5433

\* Postgres::build(): host 127.0.0.1, no data directory, no port, a random
\* superuser password.
build == [data_dir |-> FALSE, host |-> "127.0.0.1", port |-> NoPort,
          superuser_pw |-> generate_random_string]

\* PostgresBuilder::host
builder_host(builder, host) == [builder EXCEPT !.host = host]

\* PostgresBuilder::data_dir
builder_data_dir(builder) == [builder EXCEPT !.data_dir = TRUE]

\* PostgresBuilder::port
builder_port(builder, p) == [builder EXCEPT !.port = p]

\* PostgresBuilder::superuser_pw
builder_superuser_pw(builder, pw) == [builder EXCEPT !.superuser_pw = pw]

\* The builders a caller of the library configures.
Builders == {build, builder_data_dir(build), builder_port(build, RequestedPort),
             builder_host(build, "localhost")}

\* Passwords a caller sets with superuser_pw: the one of the test
\* can_change_superuser_pw, and one with an '@' in it.
SetPasswords == {<<"helloworld">>, <<"p", "@", "ss">>}

\* The characters of a password Url::parse leaves as they are in the userinfo
\* of a URL, for the characters of SetPasswords: '@' is percent-encoded.
\* Url::password() returns the encoded form.
userinfo_percent_encode(pw) ==
    [k \in DOMAIN pw |-> IF pw[k] = "@" THEN "%40" ELSE pw[k]]

\* Url::parse(&format!("postgres://{}:{}@{}:{}", superuser, superuser_pw, host, port))
parse_superuser_url(superuser, superuser_pw, host, port) ==
    [scheme |-> "postgres", user |-> superuser,
     pw |-> userinfo_percent_encode(superuser_pw),
     host |-> host, port |-> port, path |-> NoName]

\* The start call of a thread: the builder, the port resolved, the steps
\* completed, the result and, on Ok, the Instance returned.
NoBuilder == [data_dir |-> FALSE, host |-> NoHost, port |-> NoPort,
              superuser_pw |-> NoName]

NoStart == [builder |-> NoBuilder, port |-> NoPort, steps |-> <<>>,
            result |-> "none", inst |-> 0]

StartOf(builder) == [NoStart EXCEPT !.builder = builder]

\* ---------------------------------------------------------------- Init
\* No call was made on a PostgresClient yet.
NoCall == [op |-> "none", inst |-> 0, launched |-> FALSE, code |-> 0, result |-> "none"]

\* No subprocess command line was built yet.
NoCommand == [kind |-> "none"]

\* No string is being escaped; the readiness loop is not running.
NoQuote == [fn |-> "none", unescaped |-> <<>>, result |-> <<>>, done |-> FALSE]

NoProbe == [state |-> "none"]

\* The process has started: no thread has called into the library.
NothingStarted ==
    /\ pc = [t \in Threads |-> "idle"]
    /\ arc = [t \in Threads |-> 0]
    /\ su = [t \in Threads |-> NoUrl]
    /\ rid = [t \in Threads |-> NoName]
    /\ victim = [t \in Threads |-> 0]
    /\ unwinding = [t \in Threads |-> FALSE]
    /\ lockHolder = 0
    /\ poisoned = FALSE
    /\ slot = 0
    /\ insts = <<>>
    /\ handles = <<>>
    /\ roles = {}
    /\ dbs = {}
    /\ nextRandom = 0
    /\ calls = 0
    /\ st = [t \in Threads |-> NoStart]
    /\ client = NoCall
    /\ command = NoCommand
    /\ clients = EmptyBag

Init ==
    /\ NothingStarted
    /\ quoting = NoQuote
    /\ probing = NoProbe

\* ------------------------------------------------------- shared helpers
\* The MutexGuard is not dropped by the unwind.
UnwindKeepsLock(t) == UNCHANGED <<lockHolder, poisoned>>

\* The MutexGuard is dropped by the unwind without poisoning the Mutex.
UnwindWithoutPoison(t) ==
    IF lockHolder = t
    THEN lockHolder' = 0 /\ UNCHANGED poisoned
    ELSE UNCHANGED <<lockHolder, poisoned>>

\* A panic leaving db_fixture: the MutexGuard, if this thread holds it, is
\* dropped during the unwind, which poisons the Mutex.
UnwindGuard(t) ==
    IF lockHolder = t
    THEN lockHolder' = 0 /\ poisoned' = TRUE
    ELSE UNCHANGED <<lockHolder, poisoned>>

\* Whether DB.lock() returns: the Mutex is held by no thread.
LockNoMutex == TRUE

LockFree == lockHolder = 0

\* Whether Weak::upgrade on the slot yields an Arc: the strong count is not zero.
UpgradeIgnoresCount == slot # 0

UpgradeNever == FALSE

Upgradable == slot # 0 /\ insts[slot].strong > 0

\* Whether dropping an Arc that leaves `strong` holders runs Postgres's drop.
LastHolderOffByOne(strong) == strong <= 1

LastHolder(strong) == strong = 0

\* Drop of one Arc<Postgres> on Instance i by thread t: the strong count goes
\* down by one, and the thread that took it to zero goes on to drop the Postgres.
ArcDrop(t, i) ==
    /\ insts' = [insts EXCEPT ![i].strong = @ - 1]
    /\ IF LastHolder(insts[i].strong - 1)
       THEN pc' = [pc EXCEPT ![t] = "drop_proc"] /\ victim' = [victim EXCEPT ![t] = i]
       ELSE /\ pc' = [pc EXCEPT ![t] = IF unwinding'[t] THEN "panicked" ELSE "idle"]
            /\ victim' = [victim EXCEPT ![t] = 0]

\* The ports no server process is bound to.
FreePorts ==
    EphemeralPorts \ {insts[i].url.port : i \in {j \in DOMAIN insts : insts[j].proc = "running"}}

\* The ports handed to start calls that have not spawned their server yet.
HandedOut ==
    {st[t].port : t \in {u \in Threads :
                            pc[u] \in {"binaries", "tempdir", "pwfile", "initdb", "spawn"}}}

\* find_unused_port: a bind to 127.0.0.1:0 yields a port nothing is bound to,
\* and the listener is closed again on return.  The OS may thus hand out a port
\* it has handed to a call that has not bound it yet; the ports not handed out
\* being interchangeable, the least of them stands for all.
find_unused_port ==
    (FreePorts \cap HandedOut)
    \cup {p \in FreePorts \ HandedOut : \A q \in FreePorts \ HandedOut : p <= q}

\* ---------------------------------------------------------- db_fixture
\* db_fixture up to the registry: PGDB_TESTS_URL is read and validated.
db_fixture(t, setting) ==
    /\ pc[t] = "idle"
    /\ calls < MaxCalls
    /\ calls' = calls + 1
    /\ UNCHANGED aux
    /\ LET parsed == parse_external_test_url(setting)
       IN  CASE parsed.tag = "Err" ->
                   /\ pc' = [pc EXCEPT ![t] = "panicked"]
                   /\ UNCHANGED su
             [] parsed.tag = "Some" ->
                   /\ pc' = [pc EXCEPT ![t] = "create_role"]
                   /\ su' = [su EXCEPT ![t] = parsed.url]
             [] parsed.tag = "None" ->
                   /\ pc' = [pc EXCEPT ![t] = "lock"]
                   /\ UNCHANGED su
    /\ UNCHANGED <<arc, rid, victim, unwinding, lockHolder, poisoned, slot, insts,
                   handles, roles, dbs, nextRandom, st>>

\* The holder of the Mutex once the block `let pg = { ... }` of db_fixture has
\* ended: the guard is a local of the block.
GuardOutlivesBlock(t) == t

GuardAfterBlock(t) == 0

\* DB.lock(): the caller blocks until the Mutex is free and takes it.  A
\* poisoned Mutex is taken as well: the guard is inside the PoisonError.
db_lock(t) ==
    /\ pc[t] = "lock"
    /\ LockFree
    /\ lockHolder' = t
    /\ pc' = [pc EXCEPT ![t] = "upgrade"]
    /\ UNCHANGED <<arc, su, rid, victim, unwinding, poisoned, slot, insts, handles,
                   roles, dbs, nextRandom, calls, aux, st>>

\* .expect("lock poisoned") and guard.upgrade(), with the lock held.  On a
\* poisoned Mutex the panic drops the guard inside the error.  Otherwise the
\* Instance is reused and the guard is dropped at the end of the block, or the
\* caller goes on to launch one with the lock held.
db_upgrade(t) ==
    /\ pc[t] = "upgrade"
    /\ IF poisoned
       THEN /\ pc' = [pc EXCEPT ![t] = "panicked"]
            /\ lockHolder' = 0
            /\ UNCHANGED <<insts, arc, su, st, nextRandom>>
       ELSE IF Upgradable
       THEN /\ insts' = [insts EXCEPT ![slot].strong = @ + 1]
            /\ arc' = [arc EXCEPT ![t] = slot]
            /\ su' = [su EXCEPT ![t] = insts[slot].url]
            /\ pc' = [pc EXCEPT ![t] = "create_role"]
            /\ lockHolder' = GuardAfterBlock(t)
            /\ UNCHANGED <<st, nextRandom>>
       ELSE /\ pc' = [pc EXCEPT ![t] = "start"]
            /\ st' = [st EXCEPT ![t] = StartOf(build)]
            /\ nextRandom' = nextRandom + 1
            /\ UNCHANGED <<insts, arc, su, lockHolder>>
    /\ UNCHANGED <<rid, victim, unwinding, poisoned, slot, handles, roles, dbs, calls, aux>>

\* ------------------------------------------------ PostgresBuilder::start
\* start, first step: the port is the one set on the builder, else the one
\* find_unused_port yields, whose failure `expect` turns into a panic.
start_port(t, bind_ok) ==
    /\ pc[t] = "start"
    /\ IF st[t].builder.port # NoPort
       THEN /\ st' = [st EXCEPT ![t].port = st[t].builder.port,
                                ![t].steps = Append(@, "port")]
            /\ pc' = [pc EXCEPT ![t] = "binaries"]
            /\ UNCHANGED <<lockHolder, poisoned>>
       ELSE IF bind_ok
       THEN /\ \E port \in find_unused_port :
                 st' = [st EXCEPT ![t].port = port, ![t].steps = Append(@, "port")]
            /\ pc' = [pc EXCEPT ![t] = "binaries"]
            /\ UNCHANGED <<lockHolder, poisoned>>
       ELSE /\ st' = [st EXCEPT ![t] = NoStart]
            /\ pc' = [pc EXCEPT ![t] = "panicked"]
            /\ UnwindGuard(t)
    /\ UNCHANGED <<arc, su, rid, victim, unwinding, slot, insts, handles, roles, dbs,
                   nextRandom, calls, aux>>

\* start returns Err(err): the locals are dropped in reverse order of their
\* declaration, `instance` (if the server was spawned) before `tmp_dir` (if it
\* was created).  In db_fixture the `expect` on the result then panics.
StartErrKeepsProcess(t, err) ==
    /\ unwinding' = [unwinding EXCEPT ![t] = (lockHolder = t)]
    /\ IF victim[t] = 0
       THEN /\ st' = [st EXCEPT ![t] = IF lockHolder = t THEN NoStart
                                       ELSE [@ EXCEPT !.result = err]]
            /\ pc' = [pc EXCEPT ![t] = IF lockHolder = t THEN "panicked" ELSE "returned"]
            /\ UnwindGuard(t)
       ELSE /\ st' = [st EXCEPT ![t].result = err, ![t].inst = victim[t]]
            /\ pc' = [pc EXCEPT ![t] = "drop_dir"]
            /\ UNCHANGED <<lockHolder, poisoned>>

StartErr(t, err) ==
    /\ unwinding' = [unwinding EXCEPT ![t] = (lockHolder = t)]
    /\ IF victim[t] = 0
       THEN /\ st' = [st EXCEPT ![t] = IF lockHolder = t THEN NoStart
                                       ELSE [@ EXCEPT !.result = err]]
            /\ pc' = [pc EXCEPT ![t] = IF lockHolder = t THEN "panicked" ELSE "returned"]
            /\ UnwindGuard(t)
       ELSE /\ st' = [st EXCEPT ![t].result = err, ![t].inst = victim[t]]
            /\ pc' = [pc EXCEPT ![t] = IF insts[victim[t]].proc = "none"
                                       THEN "drop_dir" ELSE "drop_proc"]
            /\ UNCHANGED <<lockHolder, poisoned>>

Binaries == {"postgres", "initdb", "psql"}

\* start, which::which for postgres, initdb and psql, in this order; `missing`
\* are the executables not on the search path.
start_binaries(t, missing) ==
    /\ pc[t] = "binaries"
    /\ IF missing = {}
       THEN /\ st' = [st EXCEPT ![t].steps = Append(@, "binaries")]
            /\ pc' = [pc EXCEPT ![t] = "tempdir"]
            /\ UNCHANGED <<unwinding, lockHolder, poisoned>>
       ELSE StartErr(t, IF "postgres" \in missing THEN "FindPostgres"
                        ELSE IF "initdb" \in missing THEN "FindInitdb"
                        ELSE "FindPsql")
    /\ UNCHANGED <<arc, su, rid, victim, slot, insts, handles, roles, dbs,
                   nextRandom, calls, aux>>

\* The Instance in the making once its temporary directory exists.
NewInstance(t) ==
    [url |-> parse_superuser_url(<<"postgres">>, st[t].builder.superuser_pw,
                                 st[t].builder.host,
                                 st[t].port),
     data_dir |-> st[t].builder.data_dir,
     proc |-> "none", dir |-> TRUE, pwfile |-> FALSE, pw_written |-> NoName,
     data |-> FALSE,
     strong |-> 0, shared |-> FALSE, owned |-> FALSE]

\* start, tempfile::tempdir()
start_tempdir(t, ok) ==
    /\ pc[t] = "tempdir"
    /\ IF ok
       THEN /\ insts' = Append(insts, NewInstance(t))
            /\ victim' = [victim EXCEPT ![t] = Len(insts) + 1]
            /\ st' = [st EXCEPT ![t].steps = Append(@, "tempdir")]
            /\ pc' = [pc EXCEPT ![t] = "pwfile"]
            /\ UNCHANGED <<unwinding, lockHolder, poisoned>>
       ELSE StartErr(t, "CreateDatabaseDir") /\ UNCHANGED <<insts, victim>>
    /\ UNCHANGED <<arc, su, rid, slot, handles, roles, dbs, nextRandom, calls, aux>>

\* start, fs::write of the superuser password into the temporary directory
start_pwfile(t, ok) ==
    /\ pc[t] = "pwfile"
    /\ IF ok
       THEN /\ insts' = [insts EXCEPT ![victim[t]].pwfile = TRUE,
                                      ![victim[t]].pw_written = st[t].builder.superuser_pw]
            /\ st' = [st EXCEPT ![t].steps = Append(@, "pwfile")]
            /\ pc' = [pc EXCEPT ![t] = "initdb"]
            /\ UNCHANGED <<unwinding, lockHolder, poisoned>>
       ELSE StartErr(t, "WriteTemporaryPw") /\ UNCHANGED insts
    /\ UNCHANGED <<arc, su, rid, victim, slot, handles, roles, dbs, nextRandom, calls, aux>>

\* The directory a data_dir set on the builder names holds a database cluster.
ExplicitDataExists == \E i \in DOMAIN insts : insts[i].data_dir /\ insts[i].data

InitdbOutcomes == {"not_run", "nonzero", "ok"}

StartInitdbIgnoresStatus(t, outcome) ==
    /\ pc[t] = "initdb"
    /\ IF outcome # "not_run"
       THEN /\ insts' = [insts EXCEPT ![victim[t]].data = (outcome = "ok")]
            /\ st' = [st EXCEPT ![t].steps = Append(@, "initdb")]
            /\ pc' = [pc EXCEPT ![t] = "spawn"]
            /\ UNCHANGED <<unwinding, lockHolder, poisoned>>
       ELSE StartErr(t, "RunInitDb") /\ UNCHANGED insts
    /\ UNCHANGED <<arc, su, rid, victim, slot, handles, roles, dbs, nextRandom, calls, aux>>

\* start, initdb --pgdata data_dir: it cannot be run, exits non-zero (as it
\* does on a directory that is not empty), or creates the cluster.
start_initdb(t, outcome) ==
    /\ pc[t] = "initdb"
    /\ outcome = "ok" => ~(st[t].builder.data_dir /\ ExplicitDataExists)
    /\ IF outcome = "ok"
       THEN /\ insts' = [insts EXCEPT ![victim[t]].data = TRUE]
            /\ st' = [st EXCEPT ![t].steps = Append(@, "initdb")]
            /\ pc' = [pc EXCEPT ![t] = "spawn"]
            /\ UNCHANGED <<unwinding, lockHolder, poisoned>>
       ELSE /\ StartErr(t, IF outcome = "not_run" THEN "RunInitDb" ELSE "InitDbFailed")
            /\ UNCHANGED insts
    /\ UNCHANGED <<arc, su, rid, victim, slot, handles, roles, dbs, nextRandom, calls, aux>>

\* A server process accepts TCP connections on the port.
Listening(port) ==
    \E i \in DOMAIN insts : insts[i].proc = "running" /\ insts[i].url.port = port

\* start, ProcessGuard::spawn_graceful of postgres -D data_dir -p port.  A
\* server that finds its port taken exits on its own.
start_spawn(t, ok) ==
    /\ pc[t] = "spawn"
    /\ IF ok
       THEN /\ insts' = [insts EXCEPT ![victim[t]].proc =
                            IF Listening(st[t].port) THEN "exited" ELSE "running"]
            /\ st' = [st EXCEPT ![t].steps = Append(@, "spawn")]
            /\ pc' = [pc EXCEPT ![t] = "probe"]
            /\ UNCHANGED <<unwinding, lockHolder, poisoned>>
       ELSE StartErr(t, "LaunchPostgres") /\ UNCHANGED insts
    /\ UNCHANGED <<arc, su, rid, victim, slot, handles, roles, dbs, nextRandom, calls, aux>>

\* start, the readiness probe: TcpStream::connect(host:port) until it succeeds
\* or startup_timeout has passed.  On success start returns the Postgres; in
\* db_fixture it is wrapped in an Arc whose downgrade is stored in the slot, and
\* the guard is dropped.
start_probe(t, connected) ==
    /\ pc[t] = "probe"
    /\ connected => (st[t].builder.host \in LoopbackHosts /\ Listening(st[t].port))
    /\ IF ~connected
       THEN /\ StartErr(t, "StartupTimeout")
            /\ UNCHANGED <<insts, slot, arc, su, victim>>
       ELSE IF lockHolder = t
       THEN /\ insts' = [insts EXCEPT ![victim[t]].shared = TRUE, ![victim[t]].strong = 1]
            /\ slot' = victim[t]
            /\ arc' = [arc EXCEPT ![t] = victim[t]]
            /\ su' = [su EXCEPT ![t] = insts[victim[t]].url]
            /\ victim' = [victim EXCEPT ![t] = 0]
            /\ lockHolder' = GuardAfterBlock(t)
            /\ st' = [st EXCEPT ![t] = NoStart]
            /\ pc' = [pc EXCEPT ![t] = "create_role"]
            /\ UNCHANGED <<unwinding, poisoned>>
       ELSE /\ victim' = [victim EXCEPT ![t] = 0]
            /\ UNCHANGED insts
            /\ st' = [st EXCEPT ![t].steps = Append(@, "probe"), ![t].result = "Ok",
                                ![t].inst = victim[t]]
            /\ pc' = [pc EXCEPT ![t] = "returned"]
            /\ UNCHANGED <<slot, arc, su, unwinding, lockHolder, poisoned>>
    /\ UNCHANGED <<rid, handles, roles, dbs, nextRandom, calls, aux>>

\* ------------------------------------------------- create_fixture_db
\* The unwind forgets `pg` instead of dropping it: the strong count stays.
FixturePanicLeaksArc(t) ==
    /\ unwinding' = [unwinding EXCEPT ![t] = TRUE]
    /\ rid' = [rid EXCEPT ![t] = NoName]
    /\ su' = [su EXCEPT ![t] = NoUrl]
    /\ arc' = [arc EXCEPT ![t] = 0]
    /\ pc' = [pc EXCEPT ![t] = "panicked"]
    /\ UNCHANGED <<insts, victim>>

\* The `expect` on a failed create_fixture_db: the panic unwinds db_fixture,
\* dropping `pg` on the local path.
FixturePanic(t) ==
    /\ unwinding' = [unwinding EXCEPT ![t] = TRUE]
    /\ rid' = [rid EXCEPT ![t] = NoName]
    /\ su' = [su EXCEPT ![t] = NoUrl]
    /\ arc' = [arc EXCEPT ![t] = 0]
    /\ IF arc[t] # 0
       THEN ArcDrop(t, arc[t])
       ELSE /\ pc' = [pc EXCEPT ![t] = "panicked"]
            /\ UNCHANGED <<insts, victim>>

\* create_fixture_db, first half: the random id is drawn and CREATE ROLE is run.
create_role(t, env) ==
    /\ pc[t] = "create_role"
    /\ nextRandom' = nextRandom + 1
    /\ LET random_id == generate_random_string
           r == run_psql_command(env, su[t], <<"postgres">>,
                    CreateRoleSql(fixture_db_user(random_id), fixture_db_pw(random_id)))
       IN  /\ roles' = r.roles
           /\ dbs' = r.dbs
           /\ IF r.status = "Ok"
              THEN /\ rid' = [rid EXCEPT ![t] = random_id]
                   /\ pc' = [pc EXCEPT ![t] = "create_db"]
                   /\ UNCHANGED <<arc, su, victim, unwinding, insts>>
              ELSE FixturePanic(t)
    /\ UNCHANGED <<lockHolder, poisoned, slot, handles, calls, aux, st>>

\* The DbUrl db_fixture returns: Local holds the Arc, External the admin URL.
NewHandle(t) ==
    [kind |-> IF arc[t] # 0 THEN "Local" ELSE "External",
     arc |-> arc[t],
     url |-> fixture_url(su[t], rid[t]),
     superuser_url |-> IF arc[t] # 0 THEN NoUrl ELSE su[t],
     state |-> "held",
     cleanup |-> <<>>]

\* A failed CREATE DATABASE is followed by a DROP ROLE of the role just made.
CreateDbRollsBack(t, env) ==
    /\ pc[t] = "create_db"
    /\ LET r == run_psql_command(env, su[t], <<"postgres">>,
                    CreateDatabaseSql(fixture_db_name(rid[t]), fixture_db_user(rid[t])))
       IN  /\ dbs' = r.dbs
           /\ IF r.status = "Ok"
              THEN /\ roles' = r.roles
                   /\ handles' = handles @@ (rid[t] :> NewHandle(t))
                   /\ arc' = [arc EXCEPT ![t] = 0]
                   /\ su' = [su EXCEPT ![t] = NoUrl]
                   /\ rid' = [rid EXCEPT ![t] = NoName]
                   /\ pc' = [pc EXCEPT ![t] = "idle"]
                   /\ UNCHANGED <<victim, unwinding, insts>>
              ELSE /\ roles' = {x \in roles : x[2] # fixture_db_user(rid[t])}
                   /\ FixturePanic(t) /\ UNCHANGED handles
    /\ UNCHANGED <<lockHolder, poisoned, slot, nextRandom, calls, aux, st>>

\* create_fixture_db, second half: CREATE DATABASE is run, the URL is built
\* and db_fixture returns the handle.
create_db(t, env) ==
    /\ pc[t] = "create_db"
    /\ LET r == run_psql_command(env, su[t], <<"postgres">>,
                    CreateDatabaseSql(fixture_db_name(rid[t]), fixture_db_user(rid[t])))
       IN  /\ roles' = r.roles
           /\ dbs' = r.dbs
           /\ IF r.status = "Ok"
              THEN /\ handles' = handles @@ (rid[t] :> NewHandle(t))
                   /\ arc' = [arc EXCEPT ![t] = 0]
                   /\ su' = [su EXCEPT ![t] = NoUrl]
                   /\ rid' = [rid EXCEPT ![t] = NoName]
                   /\ pc' = [pc EXCEPT ![t] = "idle"]
                   /\ UNCHANGED <<victim, unwinding, insts>>
              ELSE FixturePanic(t) /\ UNCHANGED handles
    /\ UNCHANGED <<lockHolder, poisoned, slot, nextRandom, calls, aux, st>>

\* ------------------------------------------------------ handle release
\* What Drop::drop does on the server for a DbUrl::Local: `if let
\* DbUrl::External` does not match, nothing is run.
DropLocalRunsCleanup(h) ==
    LET srv == handles[h].arc
        r == ServerExec(srv, DropDatabaseSql(trim_start_matches(handles[h].url.path, "/")))
    IN  [roles |-> {x \in r.roles : x # <<srv, handles[h].url.user>>}, dbs |-> r.dbs]

drop_local(h) == [roles |-> roles, dbs |-> dbs]

\* Drop of a DbUrl::Local: drop() does nothing, then the Arc field is dropped.
release_local(t, h) ==
    /\ pc[t] = "idle"
    /\ handles[h].state = "held"
    /\ handles[h].kind = "Local"
    /\ handles' = [handles EXCEPT ![h].state = "released"]
    /\ roles' = drop_local(h).roles
    /\ dbs' = drop_local(h).dbs
    /\ UNCHANGED unwinding
    /\ ArcDrop(t, handles[h].arc)
    /\ UNCHANGED <<arc, su, rid, lockHolder, poisoned, slot, nextRandom, calls, aux, st>>

\* Drop of the Postgres, first field with a destructor: the ProcessGuard
\* terminates the server process (SIGTERM, up to 5 s, then SIGKILL).
DropProcRemovesDirFirst(t) ==
    /\ pc[t] = "drop_proc"
    /\ insts' = [insts EXCEPT ![victim[t]].dir = FALSE, ![victim[t]].pwfile = FALSE]
    /\ pc' = [pc EXCEPT ![t] = "drop_dir"]
    /\ UNCHANGED <<arc, su, rid, victim, unwinding, lockHolder, poisoned, slot,
                   handles, roles, dbs, nextRandom, calls, aux, st>>

drop_proc(t) ==
    /\ pc[t] = "drop_proc"
    /\ insts' = [insts EXCEPT ![victim[t]].proc = "terminated"]
    /\ pc' = [pc EXCEPT ![t] = "drop_dir"]
    /\ UNCHANGED <<arc, su, rid, victim, unwinding, lockHolder, poisoned, slot,
                   handles, roles, dbs, nextRandom, calls, aux, st>>

\* Drop of the Postgres, last field: the TempDir is removed, and with it the
\* data directory holding the Instance's roles and databases.
\* (A data directory set on the builder lies outside the TempDir and stays.)
drop_dir(t) ==
    /\ pc[t] = "drop_dir"
    /\ insts' = [insts EXCEPT ![victim[t]].dir = FALSE,
                              ![victim[t]].pwfile = FALSE,
                              ![victim[t]].data = @ /\ insts[victim[t]].data_dir]
    /\ IF insts[victim[t]].data_dir
       THEN UNCHANGED <<roles, dbs>>
       ELSE /\ roles' = {x \in roles : x[1] # victim[t]}
            /\ dbs' = {d \in dbs : d.srv # victim[t]}
    /\ victim' = [victim EXCEPT ![t] = 0]
    /\ IF unwinding[t]
       THEN /\ pc' = [pc EXCEPT ![t] = "panicked"]
            /\ st' = [st EXCEPT ![t] = NoStart]
            /\ UnwindGuard(t)
       ELSE /\ pc' = [pc EXCEPT ![t] = IF st[t].result = "none" THEN "idle" ELSE "returned"]
            /\ UNCHANGED <<lockHolder, poisoned, st>>
    /\ UNCHANGED <<arc, su, rid, unwinding, slot, handles, nextRandom, calls, aux>>

\* The connection of run_cleanup_sql in Drop for DbUrl: the admin URL's user and
\* password, host and port falling back to localhost and 5432, database postgres.
CleanupConnAsFixtureUser(url, superuser_url) ==
    Conn(superuser_url.host, DefaultPgPort, url.user, url.pw, <<"postgres">>)

cleanup_conn(url, superuser_url) ==
    Conn(IF superuser_url.host = NoHost THEN "localhost" ELSE superuser_url.host,
         IF superuser_url.port = NoPort THEN DefaultPgPort ELSE superuser_url.port,
         superuser_url.user, superuser_url.pw, <<"postgres">>)

\* run_cleanup_sql: one psql run, its result discarded; the model keeps it in
\* the handle's cleanup history.
run_cleanup_sql(env, url, superuser_url, sql) ==
    Psql(env, cleanup_conn(url, superuser_url), sql)

\* One entry of a handle's cleanup history.
CleanupEntry(env, url, superuser_url, sql, status) ==
    [sql |-> sql, env |-> env, status |-> status,
     conn |-> cleanup_conn(url, superuser_url)]

\* The first statement Drop for DbUrl::External issues.
FirstCleanupDropsRole(url) == DropRoleSql(url.user)

\* The first statement names the database of the first fixture, whatever the URL.
FirstCleanupDropsOldest(url) == DropDatabaseSql(fixture_db_name(<<"1">>))

first_cleanup_sql(url) == DropDatabaseSql(trim_start_matches(url.path, "/"))

\* The second statement Drop for DbUrl::External issues.
second_cleanup_sql(url) == DropRoleSql(url.user)

\* What drop() does with the outcome of a cleanup statement: `let _ =` discards it.
CleanupExpectsSuccess(status) == status # "Ok"

cleanup_raises(status) == FALSE

\* Drop of a DbUrl::External, first statement.
release_external(t, h, env) ==
    /\ pc[t] = "idle"
    /\ handles[h].state = "held"
    /\ handles[h].kind = "External"
    /\ LET sql == first_cleanup_sql(handles[h].url)
           r == run_cleanup_sql(env, handles[h].url, handles[h].superuser_url, sql)
       IN  /\ roles' = r.roles
           /\ dbs' = r.dbs
           /\ handles' = [handles EXCEPT
                 ![h].state = "dropping",
                 ![h].cleanup = Append(@, CleanupEntry(env, handles[h].url,
                                       handles[h].superuser_url, sql, r.status))]
           /\ IF cleanup_raises(r.status)
              THEN pc' = [pc EXCEPT ![t] = "panicked"] /\ UNCHANGED victim
              ELSE /\ pc' = [pc EXCEPT ![t] = "drop_role"]
                   /\ victim' = [victim EXCEPT ![t] = h]
    /\ UNCHANGED <<arc, su, rid, unwinding, lockHolder, poisoned, slot, insts,
                   nextRandom, calls, aux, st>>

\* Drop of a DbUrl::External, second statement; the handle is gone after it.
drop_role(t, env) ==
    /\ pc[t] = "drop_role"
    /\ LET h == victim[t]
           sql == second_cleanup_sql(handles[h].url)
           r == run_cleanup_sql(env, handles[h].url, handles[h].superuser_url, sql)
       IN  /\ roles' = r.roles
           /\ dbs' = r.dbs
           /\ handles' = [handles EXCEPT
                 ![h].state = "released",
                 ![h].cleanup = Append(@, CleanupEntry(env, handles[h].url,
                                       handles[h].superuser_url, sql, r.status))]
           /\ pc' = [pc EXCEPT ![t] = IF cleanup_raises(r.status) THEN "panicked" ELSE "idle"]
    /\ victim' = [victim EXCEPT ![t] = 0]
    /\ UNCHANGED <<arc, su, rid, unwinding, lockHolder, poisoned, slot, insts,
                   nextRandom, calls, aux, st>>

\* ---------------------------------------------------- handle inspection
\* DbUrl::as_str, on a handle its owner still holds.
AsStrRunsCleanup(h) ==
    /\ handles[h].state = "held"
    /\ handles[h].kind = "External"
    /\ LET sql == DropDatabaseSql(trim_start_matches(handles[h].url.path, "/"))
           r == Psql("reachable",
                     Conn(handles[h].superuser_url.host, DefaultPgPort,
                          handles[h].superuser_url.user, handles[h].superuser_url.pw,
                          <<"postgres">>), sql)
       IN  /\ roles' = r.roles
           /\ dbs' = r.dbs
           /\ handles' = [handles EXCEPT ![h].cleanup =
                 Append(@, [sql |-> sql, env |-> "reachable", status |-> r.status,
                            conn |-> Conn(handles[h].superuser_url.host, DefaultPgPort,
                                          handles[h].superuser_url.user,
                                          handles[h].superuser_url.pw, <<"postgres">>)])]
    /\ UNCHANGED <<pc, arc, su, rid, victim, unwinding, lockHolder, poisoned, slot,
                   insts, nextRandom, calls, aux, st>>

as_str(h) ==
    /\ handles[h].state = "held"
    /\ UNCHANGED vars

\* DbUrl::as_url
as_url(h) ==
    /\ handles[h].state = "held"
    /\ UNCHANGED vars

\* AsRef<str> for DbUrl: self.as_str()
as_ref(h) == as_str(h)

\* ---------------------------------------------------------------- Next
Next ==
    \/ \E t \in Threads, setting \in ExternalSettings : db_fixture(t, setting)
    \/ \E t \in Threads : db_lock(t)
    \/ \E t \in Threads : db_upgrade(t)
    \/ \E t \in Threads, bind_ok \in BOOLEAN : start_port(t, bind_ok)
    \/ \E t \in Threads, missing \in SUBSET Binaries : start_binaries(t, missing)
    \/ \E t \in Threads, ok \in BOOLEAN : start_tempdir(t, ok)
    \/ \E t \in Threads, ok \in BOOLEAN : start_pwfile(t, ok)
    \/ \E t \in Threads, outcome \in InitdbOutcomes : start_initdb(t, outcome)
    \/ \E t \in Threads, ok \in BOOLEAN : start_spawn(t, ok)
    \/ \E t \in Threads, connected \in BOOLEAN : start_probe(t, connected)
    \/ \E t \in Threads, env \in PsqlEnvs : create_role(t, env)
    \/ \E t \in Threads, env \in PsqlEnvs : create_db(t, env)
    \/ \E t \in Threads, h \in DOMAIN handles : release_local(t, h)
    \/ \E t \in Threads : drop_proc(t)
    \/ \E t \in Threads : drop_dir(t)
    \/ \E t \in Threads, h \in DOMAIN handles, env \in PsqlEnvs : release_external(t, h, env)
    \/ \E t \in Threads, env \in PsqlEnvs : drop_role(t, env)
    \/ \E h \in DOMAIN handles : as_str(h)
    \/ \E h \in DOMAIN handles : as_url(h)
    \/ \E h \in DOMAIN handles : as_ref(h)

Spec == Init /\ [][Next]_vars

\* What thread t does once it is inside db_fixture or the drop of a handle:
\* the launch, the psql runs and the teardown end, and a thread that can take
\* the lock takes it.
ThreadStep(t) ==
    \/ db_lock(t)
    \/ db_upgrade(t)
    \/ \E bind_ok \in BOOLEAN : start_port(t, bind_ok)
    \/ \E missing \in SUBSET Binaries : start_binaries(t, missing)
    \/ \E ok \in BOOLEAN : start_tempdir(t, ok)
    \/ \E ok \in BOOLEAN : start_pwfile(t, ok)
    \/ \E outcome \in InitdbOutcomes : start_initdb(t, outcome)
    \/ \E ok \in BOOLEAN : start_spawn(t, ok)
    \/ \E connected \in BOOLEAN : start_probe(t, connected)
    \/ \E env \in PsqlEnvs : create_role(t, env)
    \/ \E env \in PsqlEnvs : create_db(t, env)
    \/ drop_proc(t)
    \/ drop_dir(t)
    \/ \E env \in PsqlEnvs : drop_role(t, env)

\* The threads keep running; when a caller calls db_fixture or drops a handle is
\* up to the caller.
SpecLive == Spec /\ \A t \in Threads : WF_vars(ThreadStep(t))

\* ------------------------------------------- the builder used directly
\* A caller of the library configures a builder and calls start on it.
build_start(t, builder) ==
    /\ pc[t] = "idle"
    /\ calls < MaxCalls
    /\ calls' = calls + 1
    /\ UNCHANGED aux
    /\ nextRandom' = nextRandom + 1
    /\ st' = [st EXCEPT ![t] = StartOf(builder)]
    /\ pc' = [pc EXCEPT ![t] = "start"]
    /\ UNCHANGED <<arc, su, rid, victim, unwinding, lockHolder, poisoned, slot, insts,
                   handles, roles, dbs>>

\* The caller takes the Result of start; on Ok it owns the Postgres from here.
start_return(t) ==
    /\ pc[t] = "returned"
    /\ insts' = IF st[t].result = "Ok" THEN [insts EXCEPT ![st[t].inst].owned = TRUE]
                                       ELSE insts
    /\ st' = [st EXCEPT ![t] = NoStart]
    /\ pc' = [pc EXCEPT ![t] = "idle"]
    /\ UNCHANGED <<arc, su, rid, victim, unwinding, lockHolder, poisoned, slot,
                   handles, roles, dbs, nextRandom, calls, aux>>

\* Drop of a Postgres that a caller of start owns.
drop_postgres(t, i) ==
    /\ pc[t] = "idle"
    /\ insts[i].owned
    /\ insts' = [insts EXCEPT ![i].owned = FALSE]
    /\ victim' = [victim EXCEPT ![t] = i]
    /\ pc' = [pc EXCEPT ![t] = "drop_proc"]
    /\ UNCHANGED <<arc, su, rid, unwinding, lockHolder, poisoned, slot, handles, roles,
                   dbs, nextRandom, calls, aux, st>>

\* Threads that use PostgresBuilder::start and drop the Postgres it returned.
StartNext ==
    \/ \E t \in Threads, builder \in Builders : build_start(t, builder)
    \/ \E t \in Threads, bind_ok \in BOOLEAN : start_port(t, bind_ok)
    \/ \E t \in Threads, missing \in SUBSET Binaries : start_binaries(t, missing)
    \/ \E t \in Threads, ok \in BOOLEAN : start_tempdir(t, ok)
    \/ \E t \in Threads, ok \in BOOLEAN : start_pwfile(t, ok)
    \/ \E t \in Threads, outcome \in InitdbOutcomes : start_initdb(t, outcome)
    \/ \E t \in Threads, ok \in BOOLEAN : start_spawn(t, ok)
    \/ \E t \in Threads, connected \in BOOLEAN : start_probe(t, connected)
    \/ \E t \in Threads : start_return(t)
    \/ \E t \in Threads, i \in DOMAIN insts : drop_postgres(t, i)
    \/ \E t \in Threads : drop_proc(t)
    \/ \E t \in Threads : drop_dir(t)

SpecStart == Init /\ [][StartNext]_vars

\* ------------------------------------------------------- PostgresClient
\* Postgres::as_superuser: a client with the superuser URL of the Instance.
as_superuser(i) == [instance |-> i, client_url |-> insts[i].url]

\* The client carries the superuser's credentials whatever was asked for.
AsUserKeepsSuperuser(i, username, password) ==
    [instance |-> i, client_url |-> insts[i].url]

\* Postgres::as_user: the superuser URL with user name and password replaced
\* (Url::set_username and set_password percent-encode like Url::parse).
as_user(i, username, password) ==
    [instance |-> i,
     client_url |-> set_password(set_username(insts[i].url,
                                              userinfo_percent_encode(username)),
                                 userinfo_percent_encode(password))]

\* PostgresClient::psql: host, port, user and PGPASSWORD are those of the client
\* URL.
client_conn(c, database) ==
    Conn(c.client_url.host, c.client_url.port, c.client_url.user, c.client_url.pw,
         database)

\* PostgresClient::run_sql
run_sql(env, c, database, sql) ==
    LET p == PsqlCommand(env, client_conn(c, database), sql)
    IN  [launched |-> p.launched, code |-> p.code, result |-> psql_result(p),
         roles |-> p.roles, dbs |-> p.dbs]

\* PostgresClient::load_sql
load_sql(env, c, database, file) ==
    LET p == PsqlFile(env, client_conn(c, database), file)
    IN  [launched |-> p.launched, code |-> p.code, result |-> psql_result(p),
         roles |-> p.roles, dbs |-> p.dbs]

\* PostgresClient::create_database
create_database(env, c, database, owner) ==
    run_sql(env, c, <<"postgres">>, CreateDatabaseSql(database, owner))

\* PostgresClient::create_user
create_user(env, c, username, password) ==
    run_sql(env, c, <<"postgres">>, CreateRoleSql(username, password))

\* The calls a caller makes on the superuser client: the user of the test
\* can_change_superuser_pw, a database for it, a statement and a script.
ClientCalls ==
    {[op |-> "create_user", database |-> <<"postgres">>,
      sql |-> CreateRoleSql(<<"foo">>, <<"bar">>), file |-> NoFile],
     [op |-> "create_database", database |-> <<"postgres">>,
      sql |-> CreateDatabaseSql(<<"foodb">>, <<"foo">>), file |-> NoFile],
     [op |-> "run_sql", database |-> <<"postgres">>,
      sql |-> DropRoleSql(<<"foo">>), file |-> NoFile],
     [op |-> "load_sql", database |-> <<"postgres">>, sql |-> <<>>, file |-> NoFile],
     [op |-> "load_sql", database |-> <<"postgres">>, sql |-> <<>>,
      file |-> [exists |-> TRUE, sql |-> CreateRoleSql(<<"foo">>, <<"bar">>)]]}

\* What call `call` on client c yields.
ClientCall(env, c, call) ==
    CASE call.op = "create_user" ->
            create_user(env, c, Unquote("\"", call.sql.ident), Unquote("'", call.sql.arg))
      [] call.op = "create_database" ->
            create_database(env, c, Unquote("\"", call.sql.ident), Unquote("\"", call.sql.arg))
      [] call.op = "run_sql" -> run_sql(env, c, call.database, call.sql)
      [] call.op = "load_sql" -> load_sql(env, c, call.database, call.file)

\* A thread makes one call on pg.as_superuser() of a Postgres a caller owns.
client_call(t, i, call, env) ==
    /\ pc[t] = "idle"
    /\ insts[i].owned
    /\ LET r == ClientCall(env, as_superuser(i), call)
       IN  /\ roles' = r.roles
           /\ dbs' = r.dbs
           /\ client' = [op |-> call.op, inst |-> i, launched |-> r.launched,
                         code |-> r.code, result |-> r.result]
    /\ UNCHANGED <<pc, arc, su, rid, victim, unwinding, lockHolder, poisoned, slot,
                   insts, handles, nextRandom, calls, st, quoting, probing, command,
                   clients>>

\* The builders of callers that set the superuser password.
ClientBuilders == {builder_superuser_pw(build, pw) : pw \in SetPasswords}

\* Threads that start a Postgres, use its superuser client and drop it.  The
\* steps of start succeed here; their failures are in StartNext.
ClientNext ==
    \/ \E t \in Threads, builder \in ClientBuilders : build_start(t, builder)
    \/ \E t \in Threads : start_port(t, TRUE)
    \/ \E t \in Threads : start_binaries(t, {})
    \/ \E t \in Threads : start_tempdir(t, TRUE)
    \/ \E t \in Threads : start_pwfile(t, TRUE)
    \/ \E t \in Threads : start_initdb(t, "ok")
    \/ \E t \in Threads : start_spawn(t, TRUE)
    \/ \E t \in Threads : start_probe(t, TRUE)
    \/ \E t \in Threads : start_return(t)
    \/ \E t \in Threads, i \in DOMAIN insts, call \in ClientCalls, env \in PsqlEnvs :
            client_call(t, i, call, env)
    \/ \E t \in Threads, i \in DOMAIN insts : drop_postgres(t, i)
    \/ \E t \in Threads : drop_proc(t)
    \/ \E t \in Threads : drop_dir(t)

SpecClient == Init /\ [][ClientNext]_vars

\* The credentials a caller passes to as_user: the user of the test
\* can_change_superuser_pw, and one with a character the URL encodes.
UserCredentials == {<<<<"foo">>, <<"bar">>>>, <<<<"foo">>, <<"b", "@", "r">>>>}

\* Postgres::as_superuser is called on a Postgres a caller owns.  The
\* PostgresClient borrows the Postgres (`instance: &'a Postgres`); nothing else
\* is touched.
as_superuser_call(t, i) ==
    /\ pc[t] = "idle"
    /\ insts[i].owned
    /\ BagCardinality(clients) < MaxClients
    /\ clients' = clients (+) SetToBag({as_superuser(i)})
    /\ UNCHANGED <<pc, arc, su, rid, victim, unwinding, lockHolder, poisoned, slot,
                   insts, handles, roles, dbs, nextRandom, calls, st, client, quoting,
                   probing, command>>

\* Postgres::as_user is called on a Postgres a caller owns.
as_user_call(t, i, cred) ==
    /\ pc[t] = "idle"
    /\ insts[i].owned
    /\ BagCardinality(clients) < MaxClients
    /\ clients' = clients (+) SetToBag({as_user(i, cred[1], cred[2])})
    /\ UNCHANGED <<pc, arc, su, rid, victim, unwinding, lockHolder, poisoned, slot,
                   insts, handles, roles, dbs, nextRandom, calls, st, client, quoting,
                   probing, command>>

\* A PostgresClient goes out of scope.
drop_client(c) ==
    /\ BagIn(c, clients)
    /\ clients' = clients (-) SetToBag({c})
    /\ UNCHANGED <<pc, arc, su, rid, victim, unwinding, lockHolder, poisoned, slot,
                   insts, handles, roles, dbs, nextRandom, calls, st, client, quoting,
                   probing, command>>

\* Drop of a Postgres whose clients are gone: the borrow of a PostgresClient
\* ends before the Postgres it borrows can be dropped.
drop_unborrowed(t, i) ==
    /\ \A c \in BagToSet(clients) : c.instance # i
    /\ drop_postgres(t, i)

\* The builders of the callers that take clients: a password is set, or a host.
AccessBuilders == ClientBuilders \cup {builder_host(build, "localhost")}

\* Threads that start a Postgres, take clients of it and drop it.
AccessNext ==
    \/ \E t \in Threads, builder \in AccessBuilders : build_start(t, builder)
    \/ \E t \in Threads : start_port(t, TRUE)
    \/ \E t \in Threads : start_binaries(t, {})
    \/ \E t \in Threads : start_tempdir(t, TRUE)
    \/ \E t \in Threads : start_pwfile(t, TRUE)
    \/ \E t \in Threads : start_initdb(t, "ok")
    \/ \E t \in Threads : start_spawn(t, TRUE)
    \/ \E t \in Threads : start_probe(t, TRUE)
    \/ \E t \in Threads : start_return(t)
    \/ \E t \in Threads, i \in DOMAIN insts : as_superuser_call(t, i)
    \/ \E t \in Threads, i \in DOMAIN insts, cred \in UserCredentials :
            as_user_call(t, i, cred)
    \/ \E c \in BagToSet(clients) : drop_client(c)
    \/ \E t \in Threads, i \in DOMAIN insts : drop_unborrowed(t, i)
    \/ \E t \in Threads : drop_proc(t)
    \/ \E t \in Threads : drop_dir(t)

SpecAccess == Init /\ [][AccessNext]_vars

\* ------------------------------------------------------------ escaping
\* The characters of the strings escaped: a letter, the two quote characters
\* and the statement separator.
Chars == {"a", "\"", "'", ";"}

Strings == UNION {[1..n -> Chars] : n \in 0..MaxLen}

EscapeFns == {"escape_ident", "escape_string"}

InitQuote ==
    /\ NothingStarted
    /\ probing = NoProbe
    /\ quoting \in {[fn |-> f, unescaped |-> u, result |-> <<>>, done |-> FALSE] :
                       f \in EscapeFns, u \in Strings}

\* One call of escape_ident or escape_string.
escape(f) ==
    /\ quoting.fn = f
    /\ ~quoting.done
    /\ quoting' = [quoting EXCEPT
          !.result = IF f = "escape_ident" THEN escape_ident(quoting.unescaped)
                                          ELSE escape_string(quoting.unescaped),
          !.done = TRUE]
    /\ UNCHANGED <<pc, arc, su, rid, victim, unwinding, lockHolder, poisoned, slot,
                   insts, handles, roles, dbs, nextRandom, calls, st, client, probing,
                   command, clients>>

QuoteNext == \E f \in EscapeFns : escape(f)

SpecQuote == InitQuote /\ [][QuoteNext]_vars

\* ------------------------------------------ the readiness loop of start
\* probe_delay, and the time a failed connection attempt takes, in ticks.
ProbeDelays == {0, 1}

ConnectTimes == {0, 1, 2}

\* let started = Instant::now(); the clock counts from there.
InitProbe ==
    /\ NothingStarted
    /\ quoting = NoQuote
    /\ probing \in {[state |-> "connect", startup_timeout |-> timeout,
                      probe_delay |-> delay, clock |-> 0, attempts |-> 0, sleeps |-> 0] :
                      timeout \in 0..MaxTimeout, delay \in ProbeDelays}

ProbeUnchanged ==
    UNCHANGED <<pc, arc, su, rid, victim, unwinding, lockHolder, poisoned, slot,
                insts, handles, roles, dbs, nextRandom, calls, st, client, quoting,
                command, clients>>

\* The timeout is looked at before the outcome of the attempt.
ProbeChecksTimeoutFirst(connected, dt) ==
    /\ probing.state = "connect"
    /\ connected \/ dt + probing.probe_delay > 0
    /\ probing' = [probing EXCEPT
          !.clock = @ + dt,
          !.attempts = @ + 1,
          !.state = IF probing.clock + dt >= probing.startup_timeout THEN "timeout"
                    ELSE IF connected THEN "ok"
                    ELSE "sleep"]
    /\ ProbeUnchanged

\* One turn of the loop up to the sleep: TcpStream::connect, which takes dt; on
\* Ok the loop is left; on Err the clock is read and StartupTimeout returned
\* if startup_timeout has passed since `started`.  (The clock advances: a failed
\* attempt and the sleep after it do not both take no time.)
probe_connect(connected, dt) ==
    /\ probing.state = "connect"
    /\ connected \/ dt + probing.probe_delay > 0
    /\ probing' = [probing EXCEPT
          !.clock = @ + dt,
          !.attempts = @ + 1,
          !.state = IF connected THEN "ok"
                    ELSE IF probing.clock + dt >= probing.startup_timeout THEN "timeout"
                    ELSE "sleep"]
    /\ ProbeUnchanged

\* thread::sleep(self.probe_delay), which may take `late` longer.
probe_sleep(late) ==
    /\ probing.state = "sleep"
    /\ probing' = [probing EXCEPT !.clock = @ + probing.probe_delay + late,
                                  !.sleeps = @ + 1,
                                  !.state = "connect"]
    /\ ProbeUnchanged

ProbeNext ==
    \/ \E connected \in BOOLEAN, dt \in ConnectTimes : probe_connect(connected, dt)
    \/ \E late \in {0, 1} : probe_sleep(late)

\* The thread in the loop keeps running.
SpecProbe == InitProbe /\ [][ProbeNext]_vars /\ WF_vars(ProbeNext)

\* -------------------------------------------------------- command lines
\* The text of a statement as format! renders it.
SqlText(sql) ==
    CASE sql.verb = "CREATE ROLE" ->
            <<"CREATE ROLE ">> \o sql.ident \o <<" LOGIN ENCRYPTED PASSWORD ">>
            \o sql.arg \o <<";">>
      [] sql.verb = "CREATE DATABASE" ->
            <<"CREATE DATABASE ">> \o sql.ident \o <<" OWNER ">> \o sql.arg \o <<";">>
      [] OTHER -> <<sql.verb, " ">> \o sql.ident \o <<";">>

\* A process::Command: the program, its arguments in order, and the variables
\* added to its environment.
Command(program, args, env) == [program |-> program, args |-> args, env |-> env]

NoEnv == [v \in {} |-> <<>>]

\* The password is also put into a connection string on the command line.
PsqlWithConninfo(c, database) ==
    Command("psql",
            <<<<"-h">>, <<c.client_url.host>>, <<"-p">>, <<ToString(c.client_url.port)>>,
              <<"-U">>, c.client_url.user, <<"-d">>,
              <<"password=">> \o c.client_url.pw \o <<" dbname=">> \o database>>,
            "PGPASSWORD" :> c.client_url.pw)

\* PostgresClient::psql: -h -p -U -d from the client URL, PGPASSWORD set.
psql(c, database) ==
    Command("psql",
            <<<<"-h">>, <<c.client_url.host>>, <<"-p">>, <<ToString(c.client_url.port)>>,
              <<"-U">>, c.client_url.user, <<"-d">>, database>>,
            "PGPASSWORD" :> c.client_url.pw)

\* The command of PostgresClient::run_sql: psql(database) -c sql.
RunSqlCommand(c, database, sql) ==
    [psql(c, database) EXCEPT !.args = @ \o <<<<"-c">>, sql>>]

\* The command of PostgresClient::load_sql: psql(database) -f filename.
LoadSqlCommand(c, database, filename) ==
    [psql(c, database) EXCEPT !.args = @ \o <<<<"-f">>, filename>>]

\* The command of run_psql_command; the port falls back to 5432.
RunPsqlCommand(superuser_url, database, sql) ==
    Command("psql",
            <<<<"-h">>, <<superuser_url.host>>, <<"-p">>,
              <<ToString(IF superuser_url.port = NoPort THEN DefaultPgPort
                                                        ELSE superuser_url.port)>>,
              <<"-U">>, superuser_url.user, <<"-d">>, database, <<"-c">>, sql>>,
            "PGPASSWORD" :> superuser_url.pw)

\* The command of run_cleanup_sql in Drop for DbUrl; host and port fall back to
\* localhost and 5432.
RunCleanupSqlCommand(superuser_url, sql) ==
    Command("psql",
            <<<<"-h">>,
              <<IF superuser_url.host = NoHost THEN "localhost" ELSE superuser_url.host>>,
              <<"-p">>,
              <<ToString(IF superuser_url.port = NoPort THEN DefaultPgPort
                                                        ELSE superuser_url.port)>>,
              <<"-U">>, superuser_url.user, <<"-d">>, <<"postgres">>, <<"-c">>, sql>>,
            "PGPASSWORD" :> superuser_url.pw)

\* The temporary directory of a start call, and the files start puts into it.
TmpDir == <<"/tmp/.tmpA">>
DataDirSet == <<"/srv/pgdata">>
DataDirOf(builder) == IF builder.data_dir THEN DataDirSet ELSE TmpDir \o <<"/db">>
SuperuserPwFile == TmpDir \o <<"/superuser-pw">>

\* fs::write(&superuser_pw_file, self.superuser_pw.as_bytes())
WritePwFile(builder) == SuperuserPwFile :> builder.superuser_pw

\* The initdb command of start.
InitdbCommand(builder) ==
    Command("initdb",
            <<<<"--no-locale">>, <<"--auth=md5">>, <<"--encoding=UTF8">>, <<"--nosync">>,
              <<"--pgdata">>, DataDirOf(builder), <<"--pwfile">>, SuperuserPwFile,
              <<"--username">>, <<"postgres">>>>,
            NoEnv)

\* The postgres command of start.
PostgresCommand(builder, port) ==
    Command("postgres",
            <<<<"-D">>, DataDirOf(builder), <<"-p">>, <<ToString(port)>>, <<"-k">>, TmpDir>>,
            NoEnv)

\* The URLs start gives an Instance: superuser postgres on 127.0.0.1, a port
\* of the OS, a password set by the caller.
LocalSuperuserUrls ==
    {parse_superuser_url(<<"postgres">>, pw, host, port) :
        pw \in SetPasswords, host \in LoopbackHosts,
        port \in EphemeralPorts \cup {RequestedPort}}

\* The URLs of the clients as_superuser and as_user return for such Instances.
ClientUrls ==
    LocalSuperuserUrls
    \cup {set_password(set_username(u, userinfo_percent_encode(cred[1])),
                       userinfo_percent_encode(cred[2])) :
             u \in LocalSuperuserUrls, cred \in UserCredentials}

\* The URLs create_fixture_db and the External cleanup are given.
SuperuserUrls == LocalSuperuserUrls \cup {AdminUrl}

ScriptNames == {<<"schema.sql">>, <<"/srv/", "data.sql">>}

\* The statements the library itself runs for the fixtures with these ids.
FixtureIds == {<<"1">>, <<"2">>}

CreationStatements ==
    {CreateRoleSql(fixture_db_user(id), fixture_db_pw(id)) : id \in FixtureIds}
    \cup {CreateDatabaseSql(fixture_db_name(id), fixture_db_user(id)) : id \in FixtureIds}

\* One subprocess is about to be spawned: what is recorded is the call it
\* comes from, the inputs of the call, and the command built from them.
Spawn(kind, input, cmd) ==
    /\ command' = [kind |-> kind, input |-> input, program |-> cmd.program,
                   args |-> cmd.args, env |-> cmd.env]
    /\ UNCHANGED <<pc, arc, su, rid, victim, unwinding, lockHolder, poisoned, slot,
                   insts, handles, roles, dbs, nextRandom, calls, st, client, quoting,
                   probing, clients>>

\* The command a call with these inputs builds.
CommandOf(kind, input) ==
    CASE kind = "run_sql" ->
            RunSqlCommand([instance |-> 0, client_url |-> input.url],
                          input.database, input.text)
      [] kind = "load_sql" ->
            LoadSqlCommand([instance |-> 0, client_url |-> input.url],
                           input.database, input.text)
      [] kind = "run_psql_command" ->
            RunPsqlCommand(input.url, input.database, input.text)
      [] kind = "run_cleanup_sql" -> RunCleanupSqlCommand(input.url, input.text)
      [] kind = "initdb" -> InitdbCommand(input.builder)
      [] kind = "postgres" -> PostgresCommand(input.builder, input.port)

PsqlInput(url, database, text) == [url |-> url, database |-> database, text |-> text]

spawn_run_sql(url, call) ==
    /\ call.op # "load_sql"
    /\ LET input == PsqlInput(url, call.database, SqlText(call.sql))
       IN  Spawn("run_sql", input, CommandOf("run_sql", input))

spawn_load_sql(url, database, filename) ==
    LET input == PsqlInput(url, database, filename)
    IN  Spawn("load_sql", input, CommandOf("load_sql", input))

spawn_run_psql_command(superuser_url, sql) ==
    LET input == PsqlInput(superuser_url, <<"postgres">>, SqlText(sql))
    IN  Spawn("run_psql_command", input, CommandOf("run_psql_command", input))

spawn_run_cleanup_sql(superuser_url, random_id, second) ==
    LET url == fixture_url(superuser_url, random_id)
        sql == IF second THEN second_cleanup_sql(url) ELSE first_cleanup_sql(url)
        input == PsqlInput(superuser_url, <<"postgres">>, SqlText(sql))
    IN  Spawn("run_cleanup_sql", input, CommandOf("run_cleanup_sql", input))

spawn_initdb(builder) ==
    LET input == [builder |-> builder, pwfile |-> WritePwFile(builder)]
    IN  Spawn("initdb", input, CommandOf("initdb", input))

\* The ports start can resolve for a builder: the port set on it, or else one
\* find_unused_port returns.
StartPorts(builder) ==
    IF builder.port # NoPort THEN {builder.port} ELSE EphemeralPorts

spawn_postgres(builder, port) ==
    LET input == [builder |-> builder, port |-> port]
    IN  Spawn("postgres", input, CommandOf("postgres", input))

CommandNext ==
    \/ \E url \in ClientUrls, call \in ClientCalls : spawn_run_sql(url, call)
    \/ \E url \in ClientUrls, name \in ScriptNames :
            spawn_load_sql(url, <<"postgres">>, name)
    \/ \E url \in SuperuserUrls, sql \in CreationStatements :
            spawn_run_psql_command(url, sql)
    \/ \E id \in FixtureIds, second \in BOOLEAN :
            spawn_run_cleanup_sql(AdminUrl, id, second)
    \/ \E builder \in Builders \cup ClientBuilders : spawn_initdb(builder)
    \/ \E builder \in Builders \cup ClientBuilders :
            \E port \in StartPorts(builder) : spawn_postgres(builder, port)

SpecCommand == Init /\ [][CommandNext]_vars

\* ============================================================ properties
Held == {h \in DOMAIN handles : handles[h].state = "held"}

HeldLocal == {h \in Held : handles[h].kind = "Local"}

Externals == {h \in DOMAIN handles : handles[h].kind = "External"}

\* The strong holders of Instance i: the Local handles not yet released and the
\* db_fixture calls that hold its Arc.  The registry slot is not among them.
Holders(i) ==
    Cardinality({h \in HeldLocal : handles[h].arc = i})
    + Cardinality({t \in Threads : arc[t] = i})

\* Thread t is inside Postgres::build().start().
InStart(t) ==
    \/ pc[t] \in {"start", "binaries", "tempdir", "pwfile", "initdb", "spawn", "probe"}
    \/ pc[t] \in {"drop_proc", "drop_dir"} /\ ~insts[victim[t]].shared

\* Instance i is live: spawned, and not yet both terminated and removed.
Live(i) == insts[i].proc = "running" \/ (insts[i].proc # "none" /\ insts[i].dir)

\* The drop of the Postgres of Instance i has begun.
TeardownStarted(i) ==
    \/ insts[i].proc = "terminated"
    \/ \E t \in Threads : pc[t] \in {"drop_proc", "drop_dir"} /\ victim[t] = i

\* TeardownStarted(i) in the state a step leads to.
TeardownStartedNext(i) ==
    \/ insts'[i].proc = "terminated"
    \/ \E t \in Threads : pc'[t] \in {"drop_proc", "drop_dir"} /\ victim'[t] = i

\* Thread t holds the lock, its upgrade still ahead, and the Instance in the
\* slot has a strong holder.  No holder is added while t holds the lock, so
\* the holder was there when t took it.
LockedWithHolder(t) ==
    pc[t] = "upgrade" /\ lockHolder = t /\ ~poisoned /\ slot # 0 /\ Holders(slot) > 0

\* C1 as stated: at most one thread is inside Postgres::build().start() at any
\* time, and a caller that takes the lock while the Instance of the slot has a
\* strong holder launches nothing.
C1_ReuseDecidedAtLock ==
    /\ [][Cardinality({t \in Threads : InStart(t)'}) <= 1]_vars
    /\ \A t \in Threads : [](LockedWithHolder(t) => [](pc[t] # "start"))

\* C1: the check-then-create on the registry slot is atomic.  At most one thread
\* is inside Postgres::build().start() at any time, and it holds the lock, as
\* does every thread from lock() to its upgrade; a caller whose upgrade, made
\* with the lock held, finds the slot's Instance with a strong holder launches
\* nothing and carries on with that Instance.
C1_AtomicCheckThenCreate ==
    [][ /\ Cardinality({t \in Threads : InStart(t)'}) <= 1
        /\ \A t \in Threads : (InStart(t)' \/ pc'[t] = "upgrade") => lockHolder' = t
        /\ \A t \in Threads :
             (pc[t] = "upgrade" /\ pc'[t] # "upgrade" /\ ~poisoned
                /\ slot # 0 /\ Holders(slot) > 0)
             => /\ pc'[t] = "create_role"
                /\ arc'[t] = slot
                /\ slot' = slot
                /\ Len(insts') = Len(insts) ]_vars

\* C1 witness: a caller took the lock while a handle was held on the slot's
\* Instance; the handle was released before the caller's upgrade, which failed,
\* and the caller is launching a new Instance with the lock held.
C1_Witness ==
    \E t \in Threads :
        /\ InStart(t) /\ lockHolder = t
        /\ slot # 0 /\ Holders(slot) = 0
        /\ \E h \in DOMAIN handles :
              handles[h].kind = "Local" /\ handles[h].arc = slot
              /\ handles[h].state # "held"

\* C2: at most one Instance launched through the slot is live at any time,
\* live meaning from the spawn of its server process until its teardown has
\* terminated the process and removed the directory.
C2_AtMostOneLive == Cardinality({i \in DOMAIN insts : Live(i)}) <= 1

\* C3: a shared Instance is torn down exactly when its last strong holder is
\* released.  Its strong count is the number of its holders (the slot adds
\* none), its teardown has not begun while a holder remains, and has begun once
\* none remains, whatever the slot points to.
C3_TeardownAtLastRelease ==
    \A i \in DOMAIN insts :
        insts[i].shared =>
            /\ insts[i].strong = Holders(i)
            /\ (TeardownStarted(i) <=> Holders(i) = 0)

\* C3 witness: the slot still points to an Instance that was torn down after a
\* handle on it was released.
C3_Witness ==
    /\ slot # 0
    /\ insts[slot].shared
    /\ insts[slot].proc = "terminated"
    /\ ~insts[slot].dir
    /\ \E h \in DOMAIN handles : handles[h].arc = slot /\ handles[h].state = "released"

\* C4: once every holder of the slot's Instance is released, the next caller to
\* take the lock launches a new Instance; a successful launch stores the new
\* Instance in the slot; and no handle is ever returned on an Instance whose
\* teardown has begun.
C4_FreshInstanceAfterRelease ==
    [][ /\ \A t \in Threads :
             (pc[t] = "upgrade" /\ pc'[t] # "upgrade" /\ ~poisoned
                /\ slot # 0 /\ Holders(slot) = 0)
             => pc'[t] = "start" /\ arc'[t] = 0
        /\ \A t \in Threads :
             (pc[t] = "probe" /\ pc'[t] = "create_role")
             => /\ slot' # slot
                /\ slot' = arc'[t]
                /\ slot' = Len(insts)
                /\ ~TeardownStartedNext(slot')
        /\ \A h \in DOMAIN handles' :
             (h \notin DOMAIN handles /\ handles'[h].kind = "Local")
             => ~TeardownStartedNext(handles'[h].arc) ]_vars

\* C4 witness: a handle is held on a second Instance after the first was torn
\* down on the release of its handles.
C4_Witness ==
    \E h \in HeldLocal :
        /\ handles[h].arc = 2
        /\ insts[1].shared /\ insts[1].proc = "terminated" /\ ~insts[1].dir
        /\ \E g \in DOMAIN handles : handles[g].arc = 1 /\ handles[g].state = "released"

\* C5: while a Local handle is held, every held Local handle is on the slot's
\* Instance with one host and port, no server process is spawned, and a Local
\* handle returned meanwhile is on that same Instance.
C5_ReuseWhileHeld ==
    [][ /\ \A h \in HeldLocal' :
             /\ handles'[h].arc = slot'
             /\ handles'[h].url.host = insts'[slot'].url.host
             /\ handles'[h].url.port = insts'[slot'].url.port
        /\ HeldLocal # {} =>
             /\ Len(insts') = Len(insts)
             /\ \A h \in DOMAIN handles' :
                  (h \notin DOMAIN handles /\ handles'[h].kind = "Local")
                  => \A g \in HeldLocal :
                        /\ handles'[h].arc = handles[g].arc
                        /\ handles'[h].url.host = handles[g].url.host
                        /\ handles'[h].url.port = handles[g].url.port ]_vars

\* C5 witness: two Local handles are held at once, on one Instance.
C5_Witness ==
    \E g, h \in HeldLocal :
        g # h /\ handles[g].arc = handles[h].arc /\ Len(insts) = 1

\* The parts of a handle's connection URL.
DbNameOf(h) == trim_start_matches(handles[h].url.path, "/")
UserOf(h) == handles[h].url.user
PasswordOf(h) == handles[h].url.pw

\* C6: any two handles db_fixture ever returned differ in database name, in
\* username and in password.
C6_DistinctCredentials ==
    \A g, h \in DOMAIN handles :
        g # h => /\ DbNameOf(g) # DbNameOf(h)
                 /\ UserOf(g) # UserOf(h)
                 /\ PasswordOf(g) # PasswordOf(h)
                 /\ url_as_str(handles[g].url) # url_as_str(handles[h].url)

\* C6 witness: two handles on one server (same host and port) exist.
C6_Witness ==
    \E g, h \in DOMAIN handles :
        /\ g # h
        /\ handles[g].url.host = handles[h].url.host
        /\ handles[g].url.port = handles[h].url.port

\* C7: a handle's teardown runs once, at its release.  A Local handle issues no
\* statement and gives up its one share of the Instance when released; an
\* External handle has issued no statement while it is held (however often it
\* is inspected), DROP DATABASE alone while its drop is at the second
\* statement, and exactly DROP DATABASE, DROP ROLE once released.
C7_CleanupOncePerHandle ==
    /\ \A i \in DOMAIN insts : insts[i].shared => insts[i].strong = Holders(i)
    /\ \A h \in DOMAIN handles :
        LET verbs == [k \in 1..Len(handles[h].cleanup) |-> handles[h].cleanup[k].sql.verb]
        IN  /\ handles[h].kind = "Local" => verbs = <<>>
            /\ handles[h].state = "held" => verbs = <<>>
            /\ (handles[h].kind = "External" /\ handles[h].state = "dropping")
               => /\ verbs = <<"DROP DATABASE IF EXISTS">>
                  /\ Cardinality({t \in Threads : pc[t] = "drop_role" /\ victim[t] = h}) = 1
            /\ (handles[h].kind = "External" /\ handles[h].state = "released")
               => /\ verbs = <<"DROP DATABASE IF EXISTS", "DROP ROLE IF EXISTS">>
                  /\ \A t \in Threads : ~(pc[t] = "drop_role" /\ victim[t] = h)

\* C7 witness: one External handle is released, its two statements issued,
\* while another is still held with none issued.
C7_Witness ==
    \E g, h \in Externals :
        /\ handles[g].state = "released" /\ Len(handles[g].cleanup) = 2
        /\ handles[h].state = "held" /\ handles[h].cleanup = <<>>

\* Every cleanup statement of handle h reached the server.
ReachedThroughout(h) ==
    \A k \in 1..Len(handles[h].cleanup) : handles[h].cleanup[k].env = "reachable"

\* C8: an External handle released while the server was reachable leaves
\* neither its database nor its role on the server.
C8_ExternalCleanupLeavesNothing ==
    \A h \in Externals :
        (handles[h].state = "released" /\ ReachedThroughout(h))
        => /\ <<ExternalServer, fixture_db_user(h)>> \notin roles
           /\ ~\E d \in dbs : d.srv = ExternalServer /\ d.name = fixture_db_name(h)

\* C8 witness: an External handle was released with the server reachable for
\* both statements.
C8_Witness ==
    \E h \in Externals :
        /\ handles[h].state = "released"
        /\ Len(handles[h].cleanup) = 2
        /\ ReachedThroughout(h)

\* C9: the release of an External handle issues DROP DATABASE IF EXISTS for its
\* database first and DROP ROLE IF EXISTS for its role second, never the other
\* way round, both on database postgres of the admin URL's server with the
\* admin credentials.
C9_DatabaseBeforeRole ==
    \A h \in Externals :
        LET log == handles[h].cleanup
            admin == handles[h].superuser_url
        IN  /\ Len(log) <= 2
            /\ Len(log) >= 1 =>
                 /\ log[1].sql.verb = "DROP DATABASE IF EXISTS"
                 /\ Unquote("\"", log[1].sql.ident) = fixture_db_name(h)
            /\ Len(log) = 2 =>
                 /\ log[2].sql.verb = "DROP ROLE IF EXISTS"
                 /\ Unquote("\"", log[2].sql.ident) = fixture_db_user(h)
            /\ \A k \in 1..Len(log) :
                 /\ log[k].conn.db = <<"postgres">>
                 /\ log[k].conn.user = admin.user
                 /\ log[k].conn.pw = admin.pw
                 /\ log[k].conn.host = admin.host
                 /\ log[k].conn.port = (IF admin.port = NoPort THEN DefaultPgPort
                                                              ELSE admin.port)
                 /\ ServerAt(log[k].conn.host, log[k].conn.port) = ExternalServer

\* C9 witness: an External handle is between its two statements, DROP DATABASE
\* issued and DROP ROLE not yet.
C9_Witness ==
    \E h \in Externals :
        /\ handles[h].state = "dropping"
        /\ Len(handles[h].cleanup) = 1
        /\ handles[h].cleanup[1].status = "Ok"

\* C10: the release of an External handle never raises.  Whatever the outcome
\* of DROP DATABASE the drop goes on to DROP ROLE, and whatever the outcome of
\* DROP ROLE the drop returns with the handle released.
C10_ReleaseNeverRaises ==
    [][ /\ \A h \in Externals :
             (handles[h].state = "held" /\ handles'[h].state # "held")
             => /\ handles'[h].state = "dropping"
                /\ \E t \in Threads :
                      pc[t] = "idle" /\ pc'[t] = "drop_role" /\ victim'[t] = h
        /\ \A t \in Threads :
             (pc[t] = "drop_role" /\ pc'[t] # "drop_role")
             => /\ pc'[t] = "idle"
                /\ handles'[victim[t]].state = "released"
                /\ Len(handles'[victim[t]].cleanup) = 2 ]_vars

\* C10 witness: an External handle is released although psql could not be
\* launched for DROP DATABASE and DROP ROLE exited non-zero.
C10_Witness ==
    \E h \in Externals :
        /\ handles[h].state = "released"
        /\ Len(handles[h].cleanup) = 2
        /\ handles[h].cleanup[1].status = "RunPsql"
        /\ handles[h].cleanup[2].status = "PsqlFailed"

\* The role and the database create_fixture_db made for handle h on server srv.
RoleOn(srv, h) == <<srv, fixture_db_user(h)>> \in roles
DatabaseOn(srv, h) == \E d \in dbs : d.srv = srv /\ d.name = fixture_db_name(h)

Locals == {h \in DOMAIN handles : handles[h].kind = "Local"}

\* C11: the release of a Local handle issues no SQL and drops nothing.  The
\* database and the role of a Local handle, held or released, are on its
\* Instance for as long as the Instance's directory exists, are gone once the
\* teardown has removed it, and that teardown begins only with no holder left.
C11_LocalReleaseDropsNothing ==
    \A h \in Locals :
        LET i == handles[h].arc
        IN  /\ handles[h].cleanup = <<>>
            /\ insts[i].dir => (RoleOn(i, h) /\ DatabaseOn(i, h))
            /\ ~insts[i].dir => (~RoleOn(i, h) /\ ~DatabaseOn(i, h))
            /\ TeardownStarted(i) => Holders(i) = 0

\* C11 witness: a Local handle is released while another holds the Instance,
\* whose server still runs.
C11_Witness ==
    \E g, h \in Locals :
        /\ handles[h].state = "released"
        /\ handles[g].state = "held"
        /\ handles[g].arc = handles[h].arc
        /\ insts[handles[h].arc].proc = "running"

\* Thread t is in a db_fixture call on the external path.
OnExternalPath(t) == pc[t] \in {"create_role", "create_db"} /\ arc[t] = 0

\* C12: with a valid PGDB_TESTS_URL, db_fixture goes straight to
\* create_fixture_db on the admin URL; no step of the call takes the registry
\* lock, touches the slot or launches an Instance; and the handle returned is
\* External, carries the admin URL, and its role and database are on the
\* external server.
C12_ExternalBypassesRegistry ==
    [][ /\ \A t \in Threads :
             db_fixture(t, ValidSetting)
             => /\ pc'[t] = "create_role"
                /\ su'[t] = AdminUrl
                /\ arc'[t] = 0
                /\ UNCHANGED <<slot, lockHolder, poisoned, insts>>
        /\ \A t \in Threads :
             (OnExternalPath(t) /\ pc'[t] # pc[t])
             => /\ pc'[t] \in {"create_db", "idle", "panicked"}
                /\ arc'[t] = 0
                /\ UNCHANGED <<slot, lockHolder, poisoned, insts>>
                /\ pc'[t] = "idle"
                   => \E h \in DOMAIN handles' \ DOMAIN handles :
                         /\ handles'[h].kind = "External"
                         /\ handles'[h].superuser_url = AdminUrl
                         /\ handles'[h].url.host = AdminUrl.host
                         /\ RoleOn(ExternalServer, h)'
                         /\ DatabaseOn(ExternalServer, h)' ]_vars

\* C12 witness: an External handle is held, its database is on the external
\* server, and no Instance was ever launched.
C12_Witness ==
    \E h \in Externals :
        /\ handles[h].state = "held"
        /\ handles[h].superuser_url = AdminUrl
        /\ DatabaseOn(ExternalServer, h)
        /\ insts = <<>>
        /\ slot = 0

\* The error variants PostgresBuilder::start returns.
StartErrors == {"FindPostgres", "FindInitdb", "FindPsql", "CreateDatabaseDir",
                "WriteTemporaryPw", "RunInitDb", "InitDbFailed", "LaunchPostgres",
                "StartupTimeout"}

\* C13: when start has returned an error, the server process that call spawned,
\* if any, is terminated, and the temporary directory that call created, if
\* any, is removed together with the password file in it.
C13_NothingLeftOnError ==
    \A t \in Threads :
        (pc[t] = "returned" /\ st[t].result \in StartErrors)
        => \/ st[t].inst = 0 /\ "tempdir" \notin {st[t].steps[k] : k \in DOMAIN st[t].steps}
           \/ /\ st[t].inst # 0
              /\ insts[st[t].inst].proc =
                    (IF st[t].result = "StartupTimeout" THEN "terminated" ELSE "none")
              /\ ~insts[st[t].inst].dir
              /\ ~insts[st[t].inst].pwfile
              /\ ~insts[st[t].inst].owned

\* C13 witness: a start call has returned StartupTimeout after spawning a
\* server that was running.
C13_Witness ==
    \E t \in Threads :
        /\ pc[t] = "returned"
        /\ st[t].result = "StartupTimeout"
        /\ insts[st[t].inst].proc = "terminated"
        /\ insts[st[t].inst].data_dir = FALSE
        /\ ~insts[st[t].inst].dir

\* C14: when start has returned an Instance, the server process that call
\* spawned is running, and so is the process that accepts connections on the
\* Instance's port.
C14_ReturnedInstanceServes ==
    \A t \in Threads :
        (pc[t] = "returned" /\ st[t].result = "Ok")
        => /\ insts[st[t].inst].proc = "running"
           /\ ServerAt(insts[st[t].inst].url.host, insts[st[t].inst].url.port) = st[t].inst

\* The Instances start has returned that have not been dropped.
InHand ==
    {i \in DOMAIN insts :
        \/ insts[i].owned
        \/ \E t \in Threads : pc[t] = "returned" /\ st[t].result = "Ok" /\ st[t].inst = i}

\* C15: two Instances returned by start calls that requested no port are on
\* different ports.
C15_DistinctAutoPorts ==
    \A i, j \in InHand :
        (i # j /\ insts[i].url.port \in EphemeralPorts /\ insts[j].url.port \in EphemeralPorts)
        => insts[i].url.port # insts[j].url.port

\* C16: no two start calls that requested a port are assigned the same port.
C16_RequestedPortsDeduplicated ==
    \A t, u \in Threads :
        (t # u /\ st[t].builder.port # NoPort /\ st[u].builder.port # NoPort
           /\ st[t].port # NoPort /\ st[u].port # NoPort)
        => st[t].port # st[u].port

\* C17 as stated: no thread holds the registry lock while it runs initdb,
\* spawns the server or probes it.
C17_NoLockAcrossSpawn ==
    \A t \in Threads : pc[t] \in {"initdb", "spawn", "probe"} => lockHolder # t

\* C17: the registry lock is held for the check-or-update of the slot, from
\* lock() to the upgrade, and by a call whose upgrade found no Instance to
\* reuse across its launch as well (initdb, the spawn, the probe, the teardown
\* of a failed launch) until the slot is written.  No thread holds it while it
\* waits for the lock, while psql runs for create_fixture_db or for a cleanup,
\* or while it tears down a shared Instance.
C17_LockOnlyAcrossLaunch ==
    /\ lockHolder # 0 => (pc[lockHolder] = "upgrade" \/ InStart(lockHolder))
    /\ \A t \in Threads :
          /\ (pc[t] = "upgrade" \/ InStart(t)) => lockHolder = t
          /\ pc[t] \in {"idle", "lock", "create_role", "create_db", "drop_role", "panicked"}
             => lockHolder # t
          /\ (pc[t] \in {"drop_proc", "drop_dir"} /\ insts[victim[t]].shared)
             => lockHolder # t

\* C17 witness: the caller that launched the Instance runs CREATE ROLE on it
\* with the lock released, and another caller has reused the Instance meanwhile.
C17_Witness ==
    \E t \in Threads :
        /\ pc[t] = "create_role"
        /\ arc[t] # 0
        /\ insts[arc[t]].strong = 2
        /\ lockHolder = 0

\* The threads that are tearing Instance i down.
TearingDown(i) == {t \in Threads : pc[t] \in {"drop_proc", "drop_dir"} /\ victim[t] = i}

\* C18: the teardown of an Instance, dropped by its owner or abandoned by
\* start, runs once and in order.  At most one thread tears an Instance down;
\* the process is terminated in the teardown's first step, with the directory
\* still there; the directory is removed in its second step, with no process
\* left; and neither is ever done again or undone.
C18_TeardownOnceInOrder ==
    [][ \A i \in DOMAIN insts :
          /\ Cardinality(TearingDown(i)') <= 1
          /\ (TearingDown(i) = {} /\ TearingDown(i)' # {})
             => (insts[i].dir /\ insts[i].proc # "terminated")
          /\ (insts[i].proc # "terminated" /\ insts'[i].proc = "terminated")
             => /\ insts[i].proc \in {"running", "exited"}
                /\ insts'[i].dir
                /\ \E t \in TearingDown(i) : pc[t] = "drop_proc" /\ pc'[t] = "drop_dir"
          /\ (insts[i].dir /\ ~insts'[i].dir)
             => /\ insts[i].proc \in {"none", "terminated"}
                /\ \E t \in TearingDown(i) : pc[t] = "drop_dir" /\ pc'[t] # "drop_dir"
          /\ insts[i].proc = "terminated" => insts'[i].proc = "terminated"
          /\ ~insts[i].dir => (~insts'[i].dir /\ TearingDown(i)' = {}) ]_vars

\* C18 witness: two teardowns are between their steps, process terminated and
\* directory still there: one of an Instance its owner dropped, one of a start
\* call given up after the probe timed out.
C18_Witness ==
    \E t, u \in Threads :
        /\ pc[t] = "drop_dir" /\ st[t].result = "none"
        /\ pc[u] = "drop_dir" /\ st[u].result = "StartupTimeout"
        /\ \A i \in {victim[t], victim[u]} : insts[i].proc = "terminated" /\ insts[i].dir

\* The steps of start in the order of the source, and the step an error
\* variant belongs to.
StartSteps == <<"port", "binaries", "tempdir", "pwfile", "initdb", "spawn", "probe">>

FailedStep(err) ==
    CASE err \in {"FindPostgres", "FindInitdb", "FindPsql"} -> "binaries"
      [] err = "CreateDatabaseDir" -> "tempdir"
      [] err = "WriteTemporaryPw" -> "pwfile"
      [] err \in {"RunInitDb", "InitDbFailed"} -> "initdb"
      [] err = "LaunchPostgres" -> "spawn"
      [] err = "StartupTimeout" -> "probe"

\* C19: start runs its steps in order, each only after all earlier ones
\* succeeded.  A failure of a step that has an error variant is returned as
\* that variant and no such step panics: the first missing executable as
\* FindPostgres, FindInitdb or FindPsql with no directory made, then
\* CreateDatabaseDir, WriteTemporaryPw, RunInitDb or InitDbFailed with no server
\* spawned, LaunchPostgres, StartupTimeout.  (Port resolution has no variant;
\* only there can start panic, when no port was requested and none is found.)
C19_StepsInOrderErrorsReturned ==
    [][ \A t \in Threads :
          /\ st'[t].steps = SubSeq(StartSteps, 1, Len(st'[t].steps))
          /\ st'[t].result = "Ok" => st'[t].steps = StartSteps
          /\ st'[t].result \in StartErrors
             => /\ pc'[t] \in {"drop_proc", "drop_dir", "returned"}
                /\ StartSteps[Len(st'[t].steps) + 1] = FailedStep(st'[t].result)
          /\ \A missing \in (SUBSET Binaries) \ {{}} :
                start_binaries(t, missing)
                => /\ st'[t].result = (IF "postgres" \in missing THEN "FindPostgres"
                                       ELSE IF "initdb" \in missing THEN "FindInitdb"
                                       ELSE "FindPsql")
                   /\ pc'[t] = "returned"
                   /\ insts' = insts
          /\ start_tempdir(t, FALSE)
             => (st'[t].result = "CreateDatabaseDir" /\ pc'[t] = "returned" /\ insts' = insts)
          /\ start_pwfile(t, FALSE)
             => (st'[t].result = "WriteTemporaryPw" /\ pc'[t] = "drop_dir")
          /\ start_initdb(t, "not_run")
             => (st'[t].result = "RunInitDb" /\ pc'[t] = "drop_dir")
          /\ start_initdb(t, "nonzero")
             => (st'[t].result = "InitDbFailed" /\ pc'[t] = "drop_dir")
          /\ start_spawn(t, FALSE)
             => (st'[t].result = "LaunchPostgres" /\ pc'[t] = "drop_dir")
          /\ start_probe(t, FALSE)
             => (st'[t].result = "StartupTimeout" /\ pc'[t] = "drop_proc")
          /\ (pc'[t] = "panicked" /\ pc[t] # "panicked") => pc[t] = "start"
          /\ \/ pc'[t] \in {"pwfile", "initdb", "spawn", "probe"}
             \/ pc'[t] \in {"drop_proc", "drop_dir"} /\ st'[t].result \in StartErrors
             => LET i == insts'[victim'[t]]
                IN  /\ i.proc # "none" => (i.data /\ "spawn" \in {st'[t].steps[k] : k \in DOMAIN st'[t].steps})
                    /\ i.data => i.pwfile
                    /\ i.pwfile => i.dir ]_vars

\* C19 witness: a start call has returned InitDbFailed; its directory was made
\* and removed again, and no server was spawned.
C19_Witness ==
    \E t \in Threads :
        /\ pc[t] = "returned"
        /\ st[t].result = "InitDbFailed"
        /\ st[t].steps = <<"port", "binaries", "tempdir", "pwfile">>
        /\ insts[st[t].inst].proc = "none"
        /\ ~insts[st[t].inst].dir

\* C20: once the teardown of an Instance has removed its temporary directory,
\* nothing the Instance created is left on disk: no password file and no data
\* directory, whether the data directory was set on the builder or not.
C20_NoDiskStateAfterTeardown ==
    \A i \in DOMAIN insts :
        ~insts[i].dir => (~insts[i].pwfile /\ ~insts[i].data)

\* C21: an Instance start has returned for a builder whose password was set
\* with superuser_pw uses that password everywhere: it is what was written to
\* the password file given to initdb, the password of the superuser URL and the
\* password of the client as_superuser returns.
C21_ConfiguredPasswordEverywhere ==
    \A t \in Threads :
        (pc[t] = "returned" /\ st[t].result = "Ok"
         /\ st[t].builder.superuser_pw \in SetPasswords)
        => LET i == st[t].inst
               pw == st[t].builder.superuser_pw
           IN  /\ insts[i].pw_written = pw
               /\ insts[i].url.pw = pw
               /\ as_superuser(i).client_url.pw = pw

\* The quote character of an escaping function.
QuoteCharOf(f) == IF f = "escape_ident" THEN "\"" ELSE "'"

\* The characters of s other than c, in their order.
Without(c, s) == SelectSeq(s, LAMBDA x : x # c)

\* In s the character c occurs only in adjacent pairs.
RECURSIVE OnlyInPairs(_, _)
OnlyInPairs(c, s) ==
    IF s = <<>> THEN TRUE
    ELSE IF Head(s) # c THEN OnlyInPairs(c, Tail(s))
    ELSE Len(s) >= 2 /\ s[2] = c /\ OnlyInPairs(c, Tail(Tail(s)))

\* C22: for every string s, escape_ident (quote character ") and escape_string
\* (quote character ') return a string that starts and ends with the quote
\* character; without these two, and with each doubled quote character made one,
\* it is s; the characters other than the quote character are those of s; and
\* between its ends the quote character occurs only in adjacent pairs.
C22_QuoteRoundTrip ==
    quoting.done
    => LET q == QuoteCharOf(quoting.fn)
           r == quoting.result
           inner == SubSeq(r, 2, Len(r) - 1)
       IN  /\ Len(r) >= 2
           /\ r[1] = q /\ r[Len(r)] = q
           /\ Undouble(q, inner) = quoting.unescaped
           /\ Without(q, inner) = Without(q, quoting.unescaped)
           /\ OnlyInPairs(q, inner)

\* C22 witness: escape_ident was given a string that holds both quote characters
\* and a statement separator, and doubled the double quote only.
C22_Witness ==
    /\ quoting.done
    /\ quoting.fn = "escape_ident"
    /\ quoting.unescaped = <<"\"", ";", "'">>
    /\ quoting.result = <<"\"", "\"", "\"", ";", "'", "\"">>

\* C23: a call of run_sql or load_sql returns Ok exactly when psql was launched
\* and exited with status zero, PsqlFailed with the exit status when it exited
\* with another status, and RunPsql when it could not be launched; create_user
\* and create_database return what run_sql returns for their one statement on
\* the database postgres.
C23_ClientResultFollowsExit ==
    [][ \A t \in Threads, i \in DOMAIN insts, call \in ClientCalls, env \in PsqlEnvs :
          client_call(t, i, call, env)
          => LET r == client'
                 wrapped == run_sql(env, as_superuser(i), <<"postgres">>, call.sql)
             IN  /\ r.result.tag = "Ok" <=> (r.launched /\ r.code = 0)
                 /\ (r.launched /\ r.code # 0)
                    => r.result = [tag |-> "PsqlFailed", code |-> r.code]
                 /\ ~r.launched <=> r.result.tag = "RunPsql"
                 /\ r.launched = (env # "no_psql")
                 /\ call.op \in {"create_user", "create_database"}
                    => /\ r.result = wrapped.result
                       /\ roles' = wrapped.roles
                       /\ dbs' = wrapped.dbs ]_vars

\* C23 witness: run_sql has returned PsqlFailed with exit status 1 (the role to
\* drop owns a database), on an Instance whose server took the statement.
C23_Witness ==
    /\ client.op = "run_sql"
    /\ client.result = [tag |-> "PsqlFailed", code |-> 1]
    /\ \E d \in dbs : d.srv = client.inst /\ d.owner = <<"foo">>

\* What is wrong with a setting, and the order in which the claim has the
\* checks made.
SettingViolations(s) ==
    IF ~s.parses THEN {"ParseError"}
    ELSE {e \in {"InvalidScheme", "MissingHost", "MissingUsername"} :
            \/ e = "InvalidScheme" /\ s.url.scheme # "postgres"
            \/ e = "MissingHost" /\ s.url.host = NoHost
            \/ e = "MissingUsername" /\ s.url.user = NoName}

CheckOrder == <<"ParseError", "InvalidScheme", "MissingHost", "MissingUsername">>

FirstViolation(s) ==
    CheckOrder[CHOOSE k \in DOMAIN CheckOrder :
                  /\ CheckOrder[k] \in SettingViolations(s)
                  /\ \A j \in 1..(k - 1) : CheckOrder[j] \notin SettingViolations(s)]

\* C24: PGDB_TESTS_URL is accepted only if it parses, has the scheme postgres,
\* a host and a username that is not empty.  Unset, it yields None and db_fixture
\* takes the local path; accepted, the URL is returned as it is; otherwise the
\* first of ParseError, InvalidScheme, MissingHost, MissingUsername that applies
\* is the error, and db_fixture ends there: nothing is created on a server and
\* no Instance is launched.
C24_SettingValidated ==
    [][ /\ \A t \in Threads, s \in ExternalSettings :
          db_fixture(t, s)
          => LET r == parse_external_test_url(s)
             IN  /\ r.tag = "None" <=> ~s.set
                 /\ r.tag = "Some" <=> (s.set /\ SettingViolations(s) = {})
                 /\ r.tag = "None" => pc'[t] = "lock"
                 /\ r.tag = "Some"
                    => (r.url = s.url /\ su'[t] = s.url /\ pc'[t] = "create_role")
                 /\ r.tag = "Err"
                    => /\ r.err = FirstViolation(s)
                       /\ pc'[t] = "panicked"
                       /\ UNCHANGED <<roles, dbs, insts, handles, slot, lockHolder>>
        /\ \A t \in Threads : pc[t] = "panicked" => pc'[t] = "panicked" ]_vars

\* C24 witness: a db_fixture call has ended on an invalid setting, before any
\* random name was drawn; nothing was launched or created.
C24_Witness ==
    \E t \in Threads :
        /\ pc[t] = "panicked"
        /\ nextRandom = 0
        /\ insts = <<>> /\ roles = {} /\ dbs = {}

\* C25: the readiness loop ends, as the clock advances.  It makes an attempt
\* before it ever gives up, whatever the timeout; a successful attempt ends it
\* with success even when startup_timeout has passed; a failed attempt ends it
\* with StartupTimeout exactly when startup_timeout has passed by then, and only
\* otherwise is followed by a sleep of at least probe_delay.
C25_ProbeLoop ==
    /\ [][ /\ \A dt \in ConnectTimes :
                 probe_connect(TRUE, dt) => probing'.state = "ok"
           /\ \A dt \in ConnectTimes :
                 probe_connect(FALSE, dt)
                 => probing'.state = (IF probing'.clock >= probing.startup_timeout
                                      THEN "timeout" ELSE "sleep")
           /\ probing'.sleeps # probing.sleeps
              => /\ probing.state = "sleep"
                 /\ probing.clock < probing.startup_timeout
                 /\ probing'.clock >= probing.clock + probing.probe_delay
                 /\ probing'.state = "connect"
           /\ probing.state \in {"ok", "timeout"} => probing' = probing ]_vars
    /\ [](probing.state \in {"ok", "timeout", "sleep"} => probing.attempts >= 1)
    /\ [](probing.state \in {"ok", "timeout"} => probing.sleeps = probing.attempts - 1)
    /\ (probing.state \in {"connect", "sleep"} ~> probing.state \in {"ok", "timeout"})

\* C25 witness: the loop has ended with success at its second attempt, made
\* after startup_timeout had passed during the sleep.
C25_Witness ==
    /\ probing.state = "ok"
    /\ probing.attempts = 2
    /\ probing.sleeps = 1
    /\ probing.clock > probing.startup_timeout
    /\ probing.startup_timeout > 0

\* Thread t is inside db_fixture or inside the drop of a handle.
Busy(t) == pc[t] \notin {"idle", "panicked"}

\* C26: with every launch and every psql run ending, every db_fixture call
\* returns or fails, and every release ends, however the calls and releases of
\* the threads interleave.  The registry lock is taken only by a db_fixture call
\* at DB.lock(), and a thread that releases a handle or tears an Instance down
\* after a release neither holds nor waits for it: its next step can be taken.
C26_EveryCallEnds ==
    /\ \A t \in Threads : Busy(t) ~> ~Busy(t)
    /\ [][ \A t \in Threads :
             (lockHolder' = t /\ lockHolder # t) => (pc[t] = "lock" /\ pc'[t] = "upgrade") ]_vars
    /\ [](\A t \in Threads :
             /\ (pc[t] \in {"drop_proc", "drop_dir"} /\ ~unwinding[t] /\ ~InStart(t))
                => (lockHolder # t /\ ENABLED (drop_proc(t) \/ drop_dir(t)))
             /\ pc[t] = "drop_role"
                => (lockHolder # t /\ ENABLED (\E env \in PsqlEnvs : drop_role(t, env))))

\* C26 witness: a thread waits for the registry lock that another thread holds
\* across its launch.
C26_Witness ==
    \E t, u \in Threads :
        /\ pc[t] = "lock"
        /\ lockHolder = u
        /\ pc[u] = "probe"

\* C27: a launch that fails inside db_fixture ends the call with a panic while
\* the registry lock is held, which poisons the lock.  The lock stays poisoned;
\* from then on every db_fixture call that reaches DB.lock() panics there, and
\* no Instance is launched and the slot is not written again.
C27_LaunchFailurePoisons ==
    [][ /\ \A t \in Threads :
             /\ (InStart(t) /\ lockHolder = t /\ pc'[t] = "panicked")
                => (poisoned' /\ lockHolder' = 0)
             /\ (InStart(t) /\ lockHolder = t /\ ~InStart(t)' /\ pc'[t] # "panicked")
                => (pc'[t] = "create_role" /\ arc'[t] # 0 /\ ~poisoned')
             /\ (poisoned /\ db_upgrade(t))
                => (pc'[t] = "panicked" /\ arc'[t] = 0 /\ lockHolder' = 0)
             /\ (poisoned /\ pc[t] = "upgrade" /\ pc'[t] # "upgrade")
                => pc'[t] = "panicked"
        /\ poisoned
           => /\ poisoned'
              /\ Len(insts') = Len(insts)
              /\ slot' = slot
              /\ \A t \in Threads : ~InStart(t)' ]_vars

\* C27 witness: the launch of a call failed at the probe and the call has
\* panicked; the lock is free and poisoned, and another call has reached
\* DB.lock().
C27_Witness ==
    \E t, u \in Threads :
        /\ poisoned /\ lockHolder = 0
        /\ pc[t] = "panicked"
        /\ pc[u] = "lock"
        /\ Len(insts) = 1 /\ insts[1].proc = "terminated" /\ ~insts[1].shared

\* The server a superuser URL leads psql to.
SrvOf(url) == ServerAt(url.host, IF url.port = NoPort THEN DefaultPgPort ELSE url.port)

\* C28: a fixture is created in two steps with no rollback.  CREATE DATABASE is
\* run only after CREATE ROLE has succeeded; when CREATE ROLE fails nothing
\* more is run; when CREATE DATABASE fails no handle is made, no statement is
\* run to undo the role, which stays on the server, and a role left on the
\* external server without a handle is never dropped.
C28_TwoStepsNoRollback ==
    [][ /\ \A t \in Threads :
             /\ (pc'[t] = "create_db" /\ pc[t] # "create_db")
                => /\ pc[t] = "create_role"
                   /\ <<SrvOf(su[t]), fixture_db_user(rid'[t])>> \in roles' \ roles
             /\ (pc[t] = "create_role" /\ pc'[t] \notin {"create_role", "create_db"})
                => UNCHANGED <<roles, dbs, handles>>
             /\ \A env \in PsqlEnvs :
                   (create_db(t, env) /\ pc'[t] # "idle")
                   => /\ UNCHANGED <<roles, dbs, handles>>
                      /\ <<SrvOf(su[t]), fixture_db_user(rid[t])>> \in roles'
                      /\ rid[t] \notin DOMAIN handles'
                      /\ \A d \in dbs' : d.name # fixture_db_name(rid[t])
        /\ \A r \in roles :
             (r[1] = ExternalServer
              /\ \A h \in DOMAIN handles' : fixture_db_user(h) # r[2])
             => r \in roles' ]_vars

\* C28 witness: a db_fixture call on the external server has ended in a panic
\* after its CREATE DATABASE failed; its role is on the server, no database and
\* no handle belong to it.
C28_Witness ==
    \E t \in Threads, r \in roles :
        /\ pc[t] = "panicked"
        /\ r[1] = ExternalServer
        /\ \A u \in Threads : fixture_db_user(rid[u]) # r[2]
        /\ \A h \in DOMAIN handles : fixture_db_user(h) # r[2]
        /\ \A d \in dbs : d.owner # r[2]

\* A db_fixture call on the local path fails in create_fixture_db.
LocalCreationFails(t) ==
    /\ pc[t] \in {"create_role", "create_db"}
    /\ arc[t] # 0
    /\ unwinding'[t] /\ ~unwinding[t]

\* C29: when fixture creation fails on the local path the call's strong
\* reference is released.  A call that was the only holder goes on to tear the
\* Instance down, and the teardown ends with the process terminated and the
\* directory removed; otherwise the Instance keeps running and the databases
\* and handles of the other holders are as before.  Every held Local handle
\* counts as a holder.
C29_FailedCreationReleasesInstance ==
    /\ [][\A t \in Threads :
            LocalCreationFails(t) =>
              LET i == arc[t] IN
                /\ arc'[t] = 0
                /\ insts'[i].strong = insts[i].strong - 1
                /\ UNCHANGED <<dbs, handles, roles>>
                /\ IF insts[i].strong = 1
                   THEN pc'[t] = "drop_proc" /\ victim'[t] = i
                   ELSE /\ pc'[t] = "panicked"
                        /\ insts' = [insts EXCEPT ![i].strong = @ - 1]
                        /\ insts'[i].proc = "running" /\ insts'[i].dir]_vars
    /\ [](\A h \in HeldLocal : \A t \in Threads :
            arc[t] = handles[h].arc => insts[arc[t]].strong > 1)
    /\ \A t \in Threads : \A i \in 1..MaxCalls :
          (unwinding[t] /\ pc[t] = "drop_proc" /\ victim[t] = i)
          ~> /\ i \in DOMAIN insts
             /\ insts[i].proc = "terminated" /\ ~insts[i].dir
             /\ pc[t] = "panicked"

\* C29 witness: the call that launched the Instance failed to create its
\* fixture and was the only holder; the Instance it had published in the
\* registry is terminated and its directory is gone, and no handle was made.
C29_Witness ==
    \E t \in Threads :
        /\ pc[t] = "panicked" /\ unwinding[t]
        /\ ~poisoned
        /\ DOMAIN handles = {}
        /\ Len(insts) = 1
        /\ insts[1].shared /\ insts[1].strong = 0
        /\ insts[1].proc = "terminated" /\ ~insts[1].dir

\* A failed call beside a held Local handle: the Instance still runs and the
\* handle's database and role are on it.
C29_SharedCase ==
    \E t \in Threads, h \in HeldLocal :
        /\ pc[t] = "panicked" /\ unwinding[t]
        /\ ~poisoned
        /\ insts[handles[h].arc].proc = "running"
        /\ insts[handles[h].arc].strong = 1
        /\ RoleOn(handles[h].arc, h) /\ DatabaseOn(handles[h].arc, h)

\* The database and the role a server reads out of the two cleanup statements
\* of a handle with this URL.
CleanupDatabase(url) == Unquote("\"", first_cleanup_sql(url).ident)
CleanupRole(url) == Unquote("\"", second_cleanup_sql(url).ident)

\* C30: the cleanup statements of an External handle name exactly the database
\* and the role its creation put on the server, and every statement a release
\* issues bears these names.  Releasing a handle removes no database and no
\* role but its own: whatever the interleaving, a handle that is still held
\* keeps the database and the role it had.
C30_CleanupNamesOwnObjects ==
    [][ /\ \A t \in Threads, env \in PsqlEnvs :
             (create_db(t, env) /\ arc[t] = 0 /\ pc'[t] = "idle")
             => LET h == rid[t] IN
                  /\ h \in DOMAIN handles' /\ h \notin DOMAIN handles
                  /\ \E d \in dbs' \ dbs :
                        /\ dbs' = dbs \cup {d}
                        /\ d.srv = ExternalServer
                        /\ d.name = CleanupDatabase(handles'[h].url)
                        /\ d.owner = CleanupRole(handles'[h].url)
                  /\ <<ExternalServer, CleanupRole(handles'[h].url)>> \in roles'
        /\ \A h \in Externals :
             /\ \A k \in 1..Len(handles'[h].cleanup) :
                   Unquote("\"", handles'[h].cleanup[k].sql.ident)
                       = (IF k = 1 THEN CleanupDatabase(handles[h].url)
                                   ELSE CleanupRole(handles[h].url))
             /\ handles'[h].url = handles[h].url
             /\ handles'[h].state = "held"
                => /\ DatabaseOn(ExternalServer, h) => DatabaseOn(ExternalServer, h)'
                   /\ RoleOn(ExternalServer, h) => RoleOn(ExternalServer, h)'
        /\ \A t \in Threads, h \in Externals, env \in PsqlEnvs :
             (release_external(t, h, env) \/ (drop_role(t, env) /\ victim[t] = h))
             => /\ \A d \in dbs \ dbs' : d.name = fixture_db_name(h)
                /\ \A r \in roles \ roles' : r[2] = fixture_db_user(h)
                /\ \A g \in Externals \ {h} : handles'[g] = handles[g] ]_vars

\* C30 witness: of two External handles one has been released, its database
\* and role dropped, and the other is held with its database and role in place.
C30_Witness ==
    \E h, g \in Externals :
        /\ h # g
        /\ handles[h].state = "released"
        /\ Len(handles[h].cleanup) = 2
        /\ ~DatabaseOn(ExternalServer, h) /\ ~RoleOn(ExternalServer, h)
        /\ handles[g].state = "held"
        /\ DatabaseOn(ExternalServer, g) /\ RoleOn(ExternalServer, g)

\* The commands that connect to a server, and the passwords tried in place of
\* the connecting one.
PsqlKinds == {"run_sql", "load_sql", "run_psql_command", "run_cleanup_sql"}
OtherPasswords == {<<"helloworld">>, <<"p", "%40", "ss">>, <<"secret">>, <<"hunter2">>}

\* The strings an argument is made of contain those of the password, in order.
RECURSIVE Contains(_, _)
Contains(arg, pw) ==
    IF Len(arg) < Len(pw) THEN FALSE
    ELSE SubSeq(arg, 1, Len(pw)) = pw \/ Contains(Tail(arg), pw)

\* C31: no subprocess is given the connecting password on its command line.
\* For psql (run_sql, load_sql, run_psql_command, the External cleanup) the
\* password of the URL is the value of PGPASSWORD, no argument contains it
\* (but the statement or file name of the caller, which is passed on as it is),
\* and program and arguments are the same whatever the password is; initdb is
\* given the path of the password file, which holds the superuser password,
\* and neither initdb's nor postgres's arguments depend on that password.
C31_PasswordNeverInArguments ==
    /\ command.kind \in PsqlKinds
       => LET in == command.input
              pw == in.url.pw
          IN  /\ command.env = ("PGPASSWORD" :> pw)
              /\ \A k \in DOMAIN command.args :
                    Contains(command.args[k], pw) => command.args[k] = in.text
              /\ \A other \in OtherPasswords :
                    LET cmd == CommandOf(command.kind,
                                         [in EXCEPT !.url = [in.url EXCEPT !.pw = other]])
                    IN  /\ cmd.program = command.program
                        /\ cmd.args = command.args
                        /\ cmd.env = ("PGPASSWORD" :> other)
    /\ command.kind \in {"initdb", "postgres"}
       => LET in == command.input
              pw == in.builder.superuser_pw
          IN  /\ command.env = NoEnv
              /\ \A k \in DOMAIN command.args : ~Contains(command.args[k], pw)
              /\ \A other \in OtherPasswords :
                    LET cmd == CommandOf(command.kind,
                                         [in EXCEPT !.builder.superuser_pw = other])
                    IN  cmd.program = command.program /\ cmd.args = command.args
    /\ command.kind = "initdb"
       => /\ \E k \in DOMAIN command.args :
                /\ command.args[k] = <<"--pwfile">>
                /\ k + 1 \in DOMAIN command.args
                /\ DOMAIN command.input.pwfile = {command.args[k + 1]}
          /\ \A f \in DOMAIN command.input.pwfile :
                command.input.pwfile[f] = command.input.builder.superuser_pw

\* C31 witness: psql is about to run the CREATE ROLE of create_user for a
\* client whose password holds an encoded character: the password is the value
\* of PGPASSWORD and the statement is the last argument.
C31_Witness ==
    /\ command.kind = "run_sql"
    /\ command.input.url.pw = <<"p", "%40", "ss">>
    /\ command.env["PGPASSWORD"] = <<"p", "%40", "ss">>
    /\ Len(command.args) = 10
    /\ command.args[9] = <<"-c">>
    /\ command.args[10] = SqlText(CreateRoleSql(<<"foo">>, <<"bar">>))

\* Nothing but the set of clients changes: no Instance, no server content, no
\* subprocess, no thread.
OnlyClientsChange ==
    UNCHANGED <<pc, arc, su, rid, victim, unwinding, lockHolder, poisoned, slot,
                insts, handles, roles, dbs, nextRandom, calls, st, client, quoting,
                probing, command>>

\* C32: as_superuser and as_user do no I/O and leave the Instance as it is.
\* The client returned has the host and the port of the Instance; the one of
\* as_superuser has the URL of the superuser, the one of as_user has that URL
\* but for user name and password, which are the ones asked for (in the URL's
\* encoding).  The clients there already stay, and a further client of an
\* owned Instance can be taken whatever clients exist.
C32_ClientsAreViews ==
    /\ [][ /\ \A t \in Threads, i \in DOMAIN insts :
                as_superuser_call(t, i)
                => /\ OnlyClientsChange
                   /\ clients \sqsubseteq clients'
                   /\ \E c \in BagToSet(clients') :
                         /\ clients' = clients (+) SetToBag({c})
                         /\ c.instance = i
                         /\ c.client_url = insts[i].url
           /\ \A t \in Threads, i \in DOMAIN insts, cred \in UserCredentials :
                as_user_call(t, i, cred)
                => /\ OnlyClientsChange
                   /\ clients \sqsubseteq clients'
                   /\ \E c \in BagToSet(clients') :
                         /\ clients' = clients (+) SetToBag({c})
                         /\ c.instance = i
                         /\ c.client_url.host = insts[i].url.host
                         /\ c.client_url.port = insts[i].url.port
                         /\ c.client_url.user = userinfo_percent_encode(cred[1])
                         /\ c.client_url.pw = userinfo_percent_encode(cred[2])
                         /\ [c.client_url EXCEPT !.user = insts[i].url.user,
                                                 !.pw = insts[i].url.pw] = insts[i].url
         ]_vars
    /\ [](\A c \in BagToSet(clients) :
            /\ c.instance \in DOMAIN insts
            /\ insts[c.instance].owned
            /\ c.client_url.host = insts[c.instance].url.host
            /\ c.client_url.port = insts[c.instance].url.port)
    /\ [](\A t \in Threads, i \in DOMAIN insts, cred \in UserCredentials :
            (pc[t] = "idle" /\ insts[i].owned /\ BagCardinality(clients) < MaxClients)
            => ENABLED as_superuser_call(t, i) /\ ENABLED as_user_call(t, i, cred))

\* C32 witness: two clients of one running Instance exist at once, the
\* superuser's and one of as_user with other credentials.
C32_Witness ==
    \E i \in DOMAIN insts :
        /\ insts[i].proc = "running"
        /\ BagIn(as_superuser(i), clients)
        /\ BagIn(as_user(i, <<"foo">>, <<"b", "@", "r">>), clients)
        /\ as_user(i, <<"foo">>, <<"b", "@", "r">>).client_url.pw = <<"b", "%40", "r">>
        /\ BagCardinality(clients) = 2

====
